---- MODULE Spec2Model ----
(***************************************************************************)
(* A model of nii_dg's RO-Crate graph (nii_dg/ro_crate.py) and of the      *)
(* per-entity structure and governance checks of its schema modules        *)
(* (nii_dg/schema/{amed,cao,ginfork}.py, nii_dg/utils.py).                 *)
(*                                                                         *)
(* Entity objects are named by handles (strings): two handles are two      *)
(* Python objects, also when they carry the same @id and @context.         *)
(***************************************************************************)
EXTENDS Integers, Sequences, FiniteSets, TLC

VARIABLES
  profile,              \* the property bag each object holds
  default_entities,     \* ROCrate.default_entities
  data_entities,        \* ROCrate.data_entities
  contextual_entities,  \* ROCrate.contextual_entities
  root,                 \* ROCrate.root
  call                  \* the last call on the graph and what it did

vars == <<profile, default_entities, data_entities, contextual_entities, root,
          call>>

(***************************************************************************)
(* Bounds of the model.                                                    *)
(***************************************************************************)
\* the most entities add() may put into the graph beside the two of __init__
MaxAdded == 3
\* the most nodes of a document handed to ROCrate(jsonld=...)
MaxNodes == 3
\* the most characters of a size string handed to check_content_size
MaxSizeLen == 4
\* the nesting depth of the type expressions handed to the conversion
MaxTypeDepth == 2

(***************************************************************************)
(* Program constants.                                                      *)
(***************************************************************************)
GH_REPO == "ivis-tsukioka/nii-dg-fork"
GH_REF == "demo-myschema-01"
RO_CRATE_CONTEXT == <<"https://w3id.org/ro/crate/1.1/context">>

(***************************************************************************)
(* The entity objects the callers of the model construct.                  *)
(***************************************************************************)
\* the class of each object, <<schema module, class name>>; <<"", "Entity">>
\* is the bare base class of nii_dg.entity
Cls == [
  root    |-> <<"base", "RootDataEntity">>,
  meta    |-> <<"base", "ROCrateMetadata">>,
  plain   |-> <<"", "Entity">>,
  gf1     |-> <<"ginfork", "File">>,
  gf2     |-> <<"ginfork", "File">>,
  af      |-> <<"amed", "File">>,
  dmp     |-> <<"cao", "DMP">>,
  cmeta   |-> <<"cao", "DMPMetadata">>,
  org     |-> <<"base", "HostingInstitution">>,
  person  |-> <<"cao", "Person">>,
  cfile   |-> <<"cao", "File">>,
  admp    |-> <<"amed", "DMP">>,
  dmp2    |-> <<"cao", "DMP">>,
  ameta   |-> <<"amed", "DMPMetadata">>,
  gmon    |-> <<"ginfork", "GinMonitoring">>,
  gpkg    |-> <<"ginfork", "File">>,
  apath   |-> <<"amed", "File">>,
  dsrc    |-> <<"base", "Dataset">>,
  din     |-> <<"base", "Dataset">>,
  dout    |-> <<"base", "Dataset">>,
  din2    |-> <<"base", "Dataset">>
]

\* the @id each object was constructed with
Id == [
  root    |-> "./",
  meta    |-> "ro-crate-metadata.json",
  plain   |-> "plain",
  gf1     |-> "https://example.com/file_1.txt",
  gf2     |-> "https://example.com/file_1.txt",
  af      |-> "https://example.com/file_1.txt",
  dmp     |-> "#dmp:1",
  cmeta   |-> "#CAO-DMP",
  org     |-> "https://www.nii.ac.jp/",
  person  |-> "https://example.com/person",
  cfile   |-> "file_1.txt",
  admp    |-> "#dmp:1",
  dmp2    |-> "#dmp:2",
  ameta   |-> "#AMED-DMP",
  gmon    |-> "#ginmonitoring",
  gpkg    |-> "package/file_1.txt",
  apath   |-> "/config/setting.txt",
  dsrc    |-> "exp1/source/",
  din     |-> "exp1/input_data/",
  dout    |-> "exp1/output_data/",
  din2    |-> "exp2/input_data/"
]

Handles == DOMAIN Cls

\* the objects the callers of Spec pass to add()
Pool == {"root", "plain", "gf1", "gf2", "af", "dmp", "cmeta"}

\* the objects the callers of Spec pass to remove()
RemovePool == Pool \cup {"meta"}

\* the objects of the end-to-end example
ExamplePool == {"org", "person", "cfile", "dmp", "cmeta"}

\* the schema classes the objects are instances of
Classes == {Cls[h] : h \in Handles}

\* the superclasses of a class that are schema classes: class File(BaseFile),
\* class Person(BasePerson)
Bases(c) ==
  IF c[1] \in {"ginfork", "amed", "cao"} /\ c[2] \in {"File", "Person"}
  THEN {c, <<"base", c[2]>>}
  ELSE {c}

\* the classes the modules nii_dg.schema.<schema> define
SchemaClasses == (UNION {Bases(c) : c \in Classes}) \ {<<"", "Entity">>}

\* isinstance(entity, DefaultEntity | DataEntity | ContextualEntity)
VariantOfClass(c) ==
  CASE c[2] \in {"RootDataEntity", "ROCrateMetadata"} -> "Default"
    [] c[2] \in {"File", "Dataset"} -> "Data"
    [] c = <<"", "Entity">> -> "Entity"
    [] OTHER -> "Contextual"

Variant(h) == VariantOfClass(Cls[h])

\* entity.schema_name
schema_name(h) == Cls[h][1]

\* entity.entity_name
entity_name(h) == Cls[h][2]

\* the @type a class gives its instances
TypeOfClass(c) ==
  CASE c = <<"base", "RootDataEntity">> -> "Dataset"
    [] c = <<"base", "ROCrateMetadata">> -> "CreativeWork"
    [] OTHER -> c[2]

\* entity.type
Type(h) == TypeOfClass(Cls[h])

\* the @context of a schema: the URL built of the repository, the reference
\* and the schema name, kept as its three parts
ContextOfSchema(s) == <<GH_REPO, GH_REF, s>>

\* entity.context
Context(h) == ContextOfSchema(schema_name(h))

(***************************************************************************)
(* Property values.                                                        *)
(***************************************************************************)
\* the property names of the model, in the order a constructor inserts them
PropOrder == <<"name", "about", "funder", "hasPart", "dmpDataNumber",
               "contentSize", "sdDatePublished", "accessRights", "repository",
               "availabilityStarts", "isAccessibleForFree", "license",
               "distribution", "affiliation", "accessRightsInfo",
               "gotInformedConsent", "informedConsentFormat", "creator",
               "hostingInstitution", "dataManager", "datasetStructure",
               "experimentPackageFlag", "unknown_property",
               "unknown_property_2">>

PropNames == {PropOrder[i] : i \in DOMAIN PropOrder}

Absent == [k |-> "absent", s |-> "", l |-> <<>>]
Str(x) == [k |-> "str", s |-> x, l |-> <<>>]
\* a live reference to an entity object, and a list of them
Ent(h) == [k |-> "ent", s |-> h, l |-> <<>>]
\* the value True
True == [k |-> "bool", s |-> "True", l |-> <<>>]
Ents(hs) == [k |-> "ents", s |-> "", l |-> hs]
\* the id-only forms {"@id": i} and [{"@id": i}, ...]
IdRef(i) == [k |-> "ref", s |-> i, l |-> <<>>]
IdRefs(is) == [k |-> "refs", s |-> "", l |-> is]

NoProps == [p \in PropNames |-> Absent]

\* the members of a sequence
Range(q) == {q[i] : i \in DOMAIN q}

\* entity.keys(), without the reserved @id, @type and @context
Keys(pm) == {p \in PropNames : pm[p].k # "absent"}

\* the keys every entity holds beside its properties, and key.startswith("@")
ReservedKeys == <<"@id", "@type", "@context">>
StartsWithAt(key) == key \in Range(ReservedKeys)

\* entity.keys() in iteration order: the keys __init__ sets, then the
\* properties (kept in the order of PropOrder)
entity_keys(pm) ==
  ReservedKeys \o SelectSeq(PropOrder, LAMBDA p : pm[p].k # "absent")


(***************************************************************************)
(* The schema catalogs: per class, the declared properties in file order,  *)
(* each with its expected type and its required flag.  An expected type is *)
(* "str", <<"ent", Class>> for a bare class name or <<"ents", Class>> for  *)
(* List[Class]; it is kept as a pair <<kind, class name>>.                 *)
(***************************************************************************)
PDef(p, kind, cname, req) ==
  [prop |-> p, kind |-> kind, cname |-> cname, required |-> req]

EntityDef(c) ==
  CASE c = <<"base", "RootDataEntity">> ->
         << PDef("name", "str", "", TRUE),
            PDef("funder", "ents", "HostingInstitution", FALSE),
            PDef("hasPart", "ents", "File", FALSE) >>
    [] c = <<"base", "HostingInstitution">> ->
         << PDef("name", "str", "", TRUE) >>
    [] c = <<"ginfork", "File">> ->
         << PDef("name", "str", "", TRUE),
            PDef("contentSize", "str", "", TRUE),
            PDef("sdDatePublished", "str", "", FALSE),
            PDef("experimentPackageFlag", "bool", "", FALSE) >>
    [] c \in {<<"amed", "File">>, <<"cao", "File">>} ->
         << PDef("name", "str", "", TRUE),
            PDef("dmpDataNumber", "ent", "DMP", TRUE),
            PDef("contentSize", "str", "", TRUE),
            PDef("sdDatePublished", "str", "", FALSE) >>
    [] c = <<"cao", "DMP">> ->
         << PDef("name", "str", "", TRUE),
            PDef("accessRights", "str", "", TRUE),
            PDef("repository", "ent", "RepositoryObject", FALSE),
            PDef("availabilityStarts", "str", "", FALSE),
            PDef("isAccessibleForFree", "str", "", FALSE),
            PDef("license", "str", "", FALSE),
            PDef("distribution", "str", "", FALSE),
            PDef("contentSize", "str", "", FALSE) >>
    [] c = <<"cao", "DMPMetadata">> ->
         << PDef("about", "ent", "RootDataEntity", TRUE),
            PDef("name", "str", "", TRUE),
            PDef("funder", "ent", "HostingInstitution", FALSE),
            PDef("repository", "ent", "RepositoryObject", FALSE),
            PDef("hasPart", "ents", "DMP", TRUE) >>
    [] c = <<"cao", "Person">> ->
         << PDef("name", "str", "", TRUE),
            PDef("affiliation", "ent", "HostingInstitution", FALSE) >>
    [] OTHER -> << >>

\* load_entity_def_from_schema_file(entity.schema_name, entity.entity_name)
load_entity_def_from_schema_file(h) == EntityDef(Cls[h])

DeclaredProps(def) == {def[i].prop : i \in DOMAIN def}

(***************************************************************************)
(* Errors.  An outcome is what a call of an entity's check_props or        *)
(* validate does: it returns (kind "ok") or raises an error of the class   *)
(* kind; msgs are the properties the error names, in the order they were   *)
(* added.                                                                  *)
(***************************************************************************)
Ok == [kind |-> "ok", msgs |-> <<>>]
Raise(kind, msgs) == [kind |-> kind, msgs |-> msgs]

\* `except EntityError`: the classes the clause catches
IsEntityError(kind) == kind = "EntityError"

\* raise prop_errors / validation_failures when message_dict is not empty
RaiseIfAny(msgs) == IF msgs = <<>> THEN Ok ELSE Raise("EntityError", msgs)

\* EntityError.add(prop, message): message_dict[prop] = message
AddMsg(msgs, prop) == IF prop \in Range(msgs) THEN msgs ELSE Append(msgs, prop)

\* the first member of q that satisfies Test, "" when none does
RECURSIVE FirstIn(_, _)
FirstIn(q, S) ==
  IF q = <<>> THEN ""
  ELSE IF Head(q) \in S THEN Head(q) ELSE FirstIn(Tail(q), S)

(***************************************************************************)
(* utils.py: the catalog checks.  Each returns "" when it passes and the   *)
(* property its PropsError names when it raises.                           *)
(***************************************************************************)
NoClass == <<"", "">>

\* import_entity_class(schema_name, entity_name): NoClass for its PropsError
import_entity_class(schema, cname) ==
  IF <<schema, cname>> \in SchemaClasses THEN <<schema, cname>> ELSE NoClass

\* a resolution that asks the base module before the entity's own module
ResolveEntityClass_BaseFirst(cname, schema) ==
  LET base == import_entity_class("base", cname)
  IN  IF base # NoClass THEN base ELSE import_entity_class(schema, cname)

\* convert_string_type_to_python_type for a bare class name: the class of
\* the entity's own schema module, else the one of the base module
ResolveEntityClass(cname, schema) ==
  LET own == import_entity_class(schema, cname)
  IN  IF own # NoClass THEN own
      ELSE IF schema # "base" THEN import_entity_class("base", cname)
      ELSE NoClass

\* typeguard's check of one value against the expected type
ValueConforms(v, def, schema) ==
  CASE def.kind = "str" -> v.k = "str"
    [] def.kind = "bool" -> v.k = "bool"
    [] def.kind = "ent" ->
         /\ v.k = "ent"
         /\ ResolveEntityClass(def.cname, schema) \in Bases(Cls[v.s])
    [] def.kind = "ents" ->
         /\ v.k = "ents"
         /\ \A i \in DOMAIN v.l :
              ResolveEntityClass(def.cname, schema) \in Bases(Cls[v.l[i]])
    [] OTHER -> FALSE

\* check_unexpected_props(entity, entity_def)
check_unexpected_props(pm, def) ==
  FirstIn(entity_keys(pm),
          {k \in Range(entity_keys(pm)) :
             k \notin DeclaredProps(def) /\ ~StartsWithAt(k)})

\* check_required_props(entity, entity_def)
check_required_props(pm, def) ==
  LET required_props == SelectSeq(def, LAMBDA d : d.required)
      missing == SelectSeq(required_props, LAMBDA d : d.prop \notin Keys(pm))
  IN  IF missing = <<>> THEN "" ELSE missing[1].prop

\* check_all_prop_types(entity, entity_def)
check_all_prop_types(pm, def, schema) ==
  LET bad == SelectSeq(def, LAMBDA d :
               d.prop \in Keys(pm) /\ ~ValueConforms(pm[d.prop], d, schema))
  IN  IF bad = <<>> THEN "" ELSE bad[1].prop


(***************************************************************************)
(* utils.py: the format checks, on the values the model's objects hold.    *)
(***************************************************************************)
UrlIds == {"https://www.nii.ac.jp/", "https://example.com/person",
           "https://example.com/file_1.txt"}
AbsPathIds == {"/config/setting.txt"}

\* classify_uri: "URL", "abs_path" or "rel_path"
classify_uri(id) ==
  CASE id \in UrlIds -> "URL"
    [] id \in AbsPathIds -> "abs_path"
    [] OTHER -> "rel_path"

\* check_url(value): TRUE when it raises ValueError
check_url_fails(value) == value \notin UrlIds

\* the size strings of the model: their text before the last two
\* characters as a number (int(value[:-2])) and their last two characters
SizeTable == [
  s \in {"156GB", "155GB", "100GB", "99GB", "over100GB", "big"} |->
    CASE s = "156GB" -> [num |-> 156, unit |-> "GB", wellformed |-> TRUE]
      [] s = "155GB" -> [num |-> 155, unit |-> "GB", wellformed |-> TRUE]
      [] s = "100GB" -> [num |-> 100, unit |-> "GB", wellformed |-> TRUE]
      [] s = "99GB" -> [num |-> 99, unit |-> "GB", wellformed |-> TRUE]
      [] s = "over100GB" -> [num |-> 0, unit |-> "GB", wellformed |-> FALSE]
      [] OTHER -> [num |-> 0, unit |-> "ig", wellformed |-> FALSE]
]

\* check_content_size(value): TRUE when it raises ValueError
check_content_size_fails(value) ==
  value \notin DOMAIN SizeTable \/ ~SizeTable[value].wellformed

PastDates == {"2000-01-01"}
FutureDates == {"9999-12-01"}

\* check_isodate(value): TRUE when it raises ValueError
check_isodate_fails(value) == value \notin PastDates \cup FutureDates

\* verify_is_past_date(entity, key): "none" (no such key), "invalid" (its
\* PropsError), "past" (True) or "future" (False)
verify_is_past_date(pm, key) ==
  CASE pm[key].k = "absent" -> "none"
    [] pm[key].s \in PastDates -> "past"
    [] pm[key].s \in FutureDates -> "future"
    [] OTHER -> "invalid"

\* check_content_formats(entity, format_rules) for the rules on contentSize
\* and sdDatePublished: "" or the property its PropsError names
check_content_formats(pm, rules) ==
  LET bad == SelectSeq(rules, LAMBDA p :
               /\ pm[p].k # "absent"
               /\ \/ pm[p].k # "str"
                  \/ p = "contentSize" /\ check_content_size_fails(pm[p].s)
                  \/ /\ p \in {"sdDatePublished", "availabilityStarts"}
                     /\ check_isodate_fails(pm[p].s))
  IN  IF bad = <<>> THEN "" ELSE bad[1]

(***************************************************************************)
(* The property bags of the objects.                                       *)
(***************************************************************************)
WithProps(names, values) ==
  [p \in PropNames |->
     IF \E i \in DOMAIN names : names[i] = p
     THEN values[CHOOSE i \in DOMAIN names : names[i] = p]
     ELSE Absent]

RootProps == WithProps(<<"name">>, <<Str("example research project")>>)
ValidGinFile == WithProps(<<"name", "contentSize", "sdDatePublished">>,
                  <<Str("Sample File"), Str("156GB"), Str("2000-01-01")>>)
ValidOrg == WithProps(<<"name">>, <<Str("National Institute of Informatics")>>)
ValidPerson == WithProps(<<"name", "affiliation">>,
                         <<Str("Ichiro Suzuki"), Ent("org")>>)
ValidCaoFile == WithProps(<<"name", "contentSize", "dmpDataNumber">>,
                          <<Str("Sample File"), Str("156GB"), Ent("dmp")>>)
ValidDmp == WithProps(<<"name", "accessRights">>,
                      <<Str("execution results"), Str("metadata only access")>>)
ValidCaoMeta == WithProps(<<"about", "name", "funder", "hasPart">>,
                  <<Ent("root"), Str("CAO-DMP"), Ent("org"), Ents(<<"dmp">>)>>)

\* the properties the caller of an entity sets and deletes, each with the
\* values it sets
Toggles(h) ==
  CASE h = "root" ->
         << <<"funder", <<Ents(<<"org">>), Ents(<<>>)>> >> >>
    [] h = "ameta" ->
         << <<"funder", <<Ent("org")>> >>,
            <<"hasPart", <<Ents(<<"admp">>)>> >>,
            <<"creator", <<Ents(<<"person">>)>> >>,
            <<"hostingInstitution", <<Ent("org")>> >>,
            <<"dataManager", <<Ent("person")>> >> >>
    [] h = "gf1" ->
         << <<"name", <<Str("Sample File")>> >>,
            <<"contentSize", <<Str("156GB")>> >>,
            <<"sdDatePublished", <<Str("2000-01-01")>> >>,
            <<"unknown_property", <<Str("unknown")>> >>,
            <<"unknown_property_2", <<Str("unknown")>> >> >>
    [] h \in {"af", "apath"} ->
         << <<"name", <<Str("Sample File")>> >>,
            <<"dmpDataNumber", <<Ent("admp")>> >>,
            <<"contentSize", <<Str("156GB")>> >>,
            <<"sdDatePublished", <<Str("2000-01-01")>> >>,
            <<"unknown_property", <<Str("unknown")>> >>,
            <<"unknown_property_2", <<Str("unknown")>> >> >>
    [] h = "cmeta" ->
         << <<"about", <<Ent("root")>> >>,
            <<"name", <<Str("CAO-DMP")>> >>,
            <<"funder", <<Ent("org")>> >>,
            <<"hasPart",
              <<Ents(<<"dmp", "dmp2">>), Ents(<<"dmp">>), Ents(<<"dmp2">>)>> >>,
            <<"unknown_property", <<Str("unknown")>> >> >>
    [] h = "dmp" ->
         << <<"accessRights",
              <<Str("open access"), Str("metadata only access")>> >>,
            <<"isAccessibleForFree", <<Str("True")>> >>,
            <<"license", <<Str("https://example.com/license")>> >>,
            <<"contentSize",
              <<Str("156GB"), Str("155GB"), Str("over100GB")>> >> >>
    [] h = "admp" ->
         << <<"accessRights",
              <<Str("Unshared"), Str("Restricted Open Sharing")>> >>,
            <<"gotInformedConsent", <<Str("yes"), Str("no")>> >>,
            <<"repository", <<Ent("org")>> >>,
            <<"contentSize",
              <<Str("156GB"), Str("155GB"), Str("over100GB")>> >> >>
    [] h = "gmon" ->
         << <<"about", <<Ent("root"), Ent("org")>> >>,
            <<"datasetStructure",
              <<Str("with_code"), Str("for_parameter")>> >>,
            <<"contentSize",
              <<Str("156GB"), Str("155GB"), Str("over100GB")>> >> >>
    [] h = "gpkg" ->
         << <<"name", <<Str("Sample File")>> >>,
            <<"contentSize", <<Str("156GB")>> >>,
            <<"experimentPackageFlag", <<True>> >>,
            <<"sdDatePublished", <<Str("2000-01-01")>> >> >>
    [] OTHER -> << >>

\* the number of property bags the toggles of t before the i-th produce
RECURSIVE Radix(_, _)
Radix(t, i) ==
  IF i <= 1 THEN 1 ELSE (Len(t[i - 1][2]) + 1) * Radix(t, i - 1)

\* the n-th property bag made of the toggles of t: the i-th toggle is absent
\* or holds one of its values, as the i-th digit of n says
MaskBag(t, n) ==
  [p \in PropNames |->
     IF \E i \in DOMAIN t :
          t[i][1] = p /\ (n \div Radix(t, i)) % (Len(t[i][2]) + 1) # 0
     THEN LET i == CHOOSE j \in DOMAIN t : t[j][1] = p
          IN  t[i][2][(n \div Radix(t, i)) % (Len(t[i][2]) + 1)]
     ELSE Absent]

\* every property bag setting and deleting the toggles of t can produce
MaskBags(t) ==
  IF t = << >> THEN << >>
  ELSE [k \in 1..Radix(t, Len(t) + 1) |-> MaskBag(t, k - 1)]

\* the property bags the callers of ROCrate construct an object with: the
\* first is a structurally valid one
CallerProfiles(h) ==
  CASE h = "root" -> <<RootProps>>
    [] h = "gf1" ->
         <<ValidGinFile,
           WithProps(<<"contentSize", "unknown_property">>,
                     <<Str("156GB"), Str("unknown")>>)>>
    [] h = "gf2" -> <<ValidGinFile>>
    [] h = "af" ->
         <<WithProps(<<"name", "contentSize", "dmpDataNumber",
                       "sdDatePublished">>,
                     <<Str("Sample File"), Str("156GB"), Ent("admp"),
                       Str("2000-01-01")>>),
           WithProps(<<"contentSize", "dmpDataNumber">>,
                     <<Str("156GB"), Ent("admp")>>)>>
    [] h = "dmp" -> <<ValidDmp>>
    [] h = "cmeta" -> <<ValidCaoMeta>>
    [] h = "org" -> <<ValidOrg>>
    [] h = "person" -> <<ValidPerson>>
    [] h = "cfile" -> <<ValidCaoFile>>
    [] h = "dmp2" -> <<ValidDmp>>
    [] h = "ameta" ->
         <<WithProps(<<"about", "name", "funder", "hasPart", "creator",
                       "hostingInstitution", "dataManager">>,
                     <<Ent("root"), Str("AMED-DMP"), Ent("org"),
                       Ents(<<"admp">>), Ents(<<"person">>), Ent("org"),
                       Ent("person")>>)>>
    [] h = "gpkg" ->
         <<WithProps(<<"name", "contentSize", "experimentPackageFlag">>,
                     <<Str("Sample File"), Str("156GB"), True>>)>>
    [] OTHER -> <<NoProps>>

\* every object constructed with its structurally valid properties
ValidProfile == [h \in Handles |-> CallerProfiles(h)[1]]

\* the objects the callers construct in more than one way
Varying == {h \in Handles : Len(CallerProfiles(h)) > 1}

\* the property bag an object holds
props(h) == profile[h]

(***************************************************************************)
(* The graph.                                                              *)
(***************************************************************************)
\* an all_entities without the default entities
all_entities_NoDefault == data_entities \o contextual_entities

\* ROCrate.all_entities
all_entities == default_entities \o data_entities \o contextual_entities

\* a root whose hasPart is a copy of data_entities taken at construction
PropsOf_CopiedAtInit(h) ==
  IF h = root THEN [props(h) EXCEPT !["hasPart"] = Ents(<<>>)]
  ELSE props(h)

\* the property bag of an object; the root's hasPart is the list object
\* data_entities itself (self.root["hasPart"] = self.data_entities)
PropsOf(h) ==
  IF h = root THEN [props(h) EXCEPT !["hasPart"] = Ents(data_entities)]
  ELSE props(h)

\* ROCrate.get_by_entity_type(cls): the entities that are instances of cls
get_by_entity_type(c) == SelectSeq(all_entities, LAMBDA e : c \in Bases(Cls[e]))


(***************************************************************************)
(* check_props of the schema classes.                                      *)
(***************************************************************************)
\* a check_props that raises PropsError at its first failing step: steps is
\* the sequence of the steps' results, "" for a step that passes
FirstPropsError(steps) ==
  LET failed == SelectSeq(steps, LAMBDA x : x # "")
  IN  IF failed = <<>> THEN Ok ELSE Raise("PropsError", <<failed[1]>>)

\* a check_props that collects the failing steps into one EntityError
CollectEntityError(steps) ==
  LET failed == SelectSeq(steps, LAMBDA x : x # "")
      RECURSIVE Collect(_, _)
      Collect(q, acc) ==
        IF q = <<>> THEN acc ELSE Collect(Tail(q), AddMsg(acc, Head(q)))
  IN  RaiseIfAny(Collect(failed, <<>>))

\* amed.File.check_props and cao.File.check_props
File_check_props(h) ==
  LET pm == PropsOf(h)
      entity_def == load_entity_def_from_schema_file(h)
  IN  FirstPropsError(<<
        check_unexpected_props(pm, entity_def),
        check_required_props(pm, entity_def),
        check_all_prop_types(pm, entity_def, schema_name(h)),
        IF classify_uri(Id[h]) = "abs_path" THEN "@id" ELSE "",
        check_content_formats(pm, <<"contentSize", "sdDatePublished">>),
        IF Type(h) # entity_name(h) THEN "@type" ELSE "",
        IF verify_is_past_date(pm, "sdDatePublished") \in {"future", "invalid"}
        THEN "sdDatePublished" ELSE "" >>)

\* ginfork.File.check_props
ginfork_File_check_props(h) ==
  LET pm == PropsOf(h)
      entity_def == load_entity_def_from_schema_file(h)
  IN  IF verify_is_past_date(pm, "sdDatePublished") = "invalid"
      THEN Raise("PropsError", <<"sdDatePublished">>)
      ELSE CollectEntityError(<<
        check_unexpected_props(pm, entity_def),
        check_required_props(pm, entity_def),
        check_all_prop_types(pm, entity_def, schema_name(h)),
        IF classify_uri(Id[h]) = "abs_path" THEN "@id" ELSE "",
        check_content_formats(pm, <<"contentSize", "sdDatePublished">>),
        IF Type(h) # entity_name(h) THEN "@type" ELSE "",
        IF verify_is_past_date(pm, "sdDatePublished") = "future"
        THEN "sdDatePublished" ELSE "" >>)

\* cao.DMP.check_props
cao_DMP_check_props(h) ==
  LET pm == PropsOf(h)
      entity_def == load_entity_def_from_schema_file(h)
  IN  FirstPropsError(<<
        check_unexpected_props(pm, entity_def),
        check_required_props(pm, entity_def),
        check_all_prop_types(pm, entity_def, schema_name(h)),
        check_content_formats(pm, <<"availabilityStarts">>),
        IF Id[h] \notin {"#dmp:1"} THEN "@id" ELSE "",
        IF Type(h) # entity_name(h) THEN "@type" ELSE "",
        IF verify_is_past_date(pm, "availabilityStarts") \in {"past", "invalid"}
        THEN "availabilityStarts" ELSE "" >>)

\* cao.DMPMetadata.check_props
cao_DMPMetadata_check_props(h) ==
  LET pm == PropsOf(h)
      entity_def == load_entity_def_from_schema_file(h)
  IN  FirstPropsError(<<
        check_unexpected_props(pm, entity_def),
        check_required_props(pm, entity_def),
        check_all_prop_types(pm, entity_def, schema_name(h)),
        IF Id[h] # "#CAO-DMP" THEN "@id" ELSE "",
        IF pm["name"] # Str("CAO-DMP") THEN "name" ELSE "",
        IF Type(h) # entity_name(h) THEN "@type" ELSE "" >>)

\* cao.Person.check_props
cao_Person_check_props(h) ==
  LET pm == PropsOf(h)
      entity_def == load_entity_def_from_schema_file(h)
  IN  FirstPropsError(<<
        check_unexpected_props(pm, entity_def),
        check_required_props(pm, entity_def),
        check_all_prop_types(pm, entity_def, schema_name(h)),
        IF check_url_fails(Id[h]) THEN "@id" ELSE "",
        IF Type(h) # entity_name(h) THEN "@type" ELSE "" >>)

\* check_props of the classes of nii_dg.entity and nii_dg.schema.base
base_check_props(h) ==
  LET pm == PropsOf(h)
      entity_def == load_entity_def_from_schema_file(h)
  IN  CollectEntityError(<<
        check_unexpected_props(pm, entity_def),
        check_required_props(pm, entity_def),
        check_all_prop_types(pm, entity_def, schema_name(h)) >>)

\* entity.check_props(), by the class of the object
check_props_of(h) ==
  CASE Cls[h] \in {<<"amed", "File">>, <<"cao", "File">>} -> File_check_props(h)
    [] Cls[h] = <<"ginfork", "File">> -> ginfork_File_check_props(h)
    [] Cls[h] = <<"cao", "DMP">> -> cao_DMP_check_props(h)
    [] Cls[h] = <<"cao", "DMPMetadata">> -> cao_DMPMetadata_check_props(h)
    [] Cls[h] = <<"cao", "Person">> -> cao_Person_check_props(h)
    [] OTHER -> base_check_props(h)


(***************************************************************************)
(* validate of the schema classes.                                         *)
(***************************************************************************)
\* the outcomes of the network probe access_url(url)
NetOutcomes == {"ok", "GovernanceError", "UnexpectedImplementationError"}

\* the sum of a sequence of naturals
RECURSIVE SumSeq(_)
SumSeq(q) == IF q = <<>> THEN 0 ELSE Head(q) + SumSeq(Tail(q))

\* sum_file_size(unit, crate, File): the sizes of the crate's File entities
\* of the class, their units stripped
sum_file_size(unit, fileClass) ==
  LET files == SelectSeq(get_by_entity_type(fileClass),
                 LAMBDA e : PropsOf(e)["contentSize"].s \in DOMAIN SizeTable)
  IN  SumSeq([i \in DOMAIN files |->
               SizeTable[PropsOf(files[i])["contentSize"].s].num])

\* cao.DMP.validate
cao_DMP_validate(h) ==
  LET pm == PropsOf(h)
      keys == Keys(pm)
      rights == pm["accessRights"].s
      dmp_metadata_ents == get_by_entity_type(<<"cao", "DMPMetadata">>)
      both == keys \cup Keys(PropsOf(dmp_metadata_ents[1]))
      size == pm["contentSize"].s
      sum == sum_file_size(SizeTable[size].unit, <<"cao", "File">>)
  IN  IF "accessRights" \notin keys THEN Raise("KeyError", <<"accessRights">>)
      ELSE IF dmp_metadata_ents = <<>> THEN Raise("CrateError", <<>>)
      ELSE CollectEntityError(<<
        IF rights = "embargoed access" /\ "availabilityStarts" \notin keys
        THEN "availabilityStarts" ELSE "",
        IF rights \in {"open access", "restricted access"}
           /\ "isAccessibleForFree" \notin keys
        THEN "isAccessibleForFree" ELSE "",
        IF rights = "open access" /\ "license" \notin keys
        THEN "license" ELSE "",
        IF "repository" \notin both THEN "repository" ELSE "",
        IF rights = "open access" /\ "distribution" \notin both
        THEN "distribution" ELSE "",
        IF /\ "contentSize" \in keys
           /\ \/ size # "over100GB" /\ sum > SizeTable[size].num
              \/ size = "over100GB" /\ sum < 100
        THEN "contentSize" ELSE "" >>)

\* cao.DMPMetadata.validate
cao_DMPMetadata_validate(h) ==
  LET pm == PropsOf(h)
      organization == pm["funder"]
      rootpm == PropsOf(root)
  IN  IF "funder" \notin Keys(pm) THEN Raise("KeyError", <<"funder">>)
      ELSE IF "hasPart" \notin Keys(pm) THEN Raise("KeyError", <<"hasPart">>)
      ELSE CollectEntityError(<<
        IF /\ "funder" \in Keys(rootpm)
           /\ organization.s \notin Range(rootpm["funder"].l)
        THEN "funder" ELSE "",
        IF Len(pm["hasPart"].l) # Len(get_by_entity_type(<<"cao", "DMP">>))
        THEN "hasPart" ELSE "" >>)

\* cao.Person.validate: access_url(self.id) with except ValueError
cao_Person_validate(h, net) ==
  IF net = "ok" THEN Ok ELSE Raise(net, <<>>)

\* cao.File.validate
cao_File_validate(h) ==
  CollectEntityError(<<
    IF "sdDatePublished" \notin Keys(PropsOf(h)) THEN "sdDatePublished" ELSE "" >>)

\* amed.File.validate
amed_File_validate(h) ==
  IF /\ classify_uri(Id[h]) = "URL"
     /\ "sdDatePublished" \notin Keys(PropsOf(h))
  THEN Raise("GovernanceError", <<"sdDatePublished">>)
  ELSE Ok

\* ginfork.File.validate
ginfork_File_validate(h) ==
  CollectEntityError(<<
    IF /\ classify_uri(Id[h]) = "URL"
       /\ "sdDatePublished" \notin Keys(PropsOf(h))
    THEN "sdDatePublished" ELSE "" >>)

\* amed.DMPMetadata.validate: GovernanceError at the first violation
amed_DMPMetadata_validate(h) ==
  LET pm == PropsOf(h)
      keys == Keys(pm)
      rootpm == PropsOf(root)
  IN  IF "funder" \notin keys THEN Raise("KeyError", <<"funder">>)
      ELSE IF /\ "funder" \in Keys(rootpm)
              /\ pm["funder"].s \notin Range(rootpm["funder"].l)
      THEN Raise("GovernanceError", <<"funder">>)
      ELSE IF "hasPart" \notin keys THEN Raise("KeyError", <<"hasPart">>)
      ELSE IF Len(pm["hasPart"].l) = 0 THEN Ok
      ELSE IF "creator" \notin keys
      THEN Raise("GovernanceError", <<"creator">>)
      ELSE IF "hostingInstitution" \notin keys
      THEN Raise("GovernanceError", <<"hostingInstitution">>)
      ELSE IF "dataManager" \notin keys
      THEN Raise("GovernanceError", <<"dataManager">>)
      ELSE Ok

\* amed.DMP.validate: GovernanceError at the first violation; the size rule
\* evaluates int(self["contentSize"]) on the whole string, unit included
amed_DMP_validate(h) ==
  LET pm == PropsOf(h)
      keys == Keys(pm)
      rights == pm["accessRights"].s
      dmp_metadata_ents == get_by_entity_type(<<"amed", "DMPMetadata">>)
      metakeys == Keys(PropsOf(dmp_metadata_ents[1]))
      size == pm["contentSize"].s
      sum == sum_file_size(SizeTable[size].unit, <<"amed", "File">>)
  IN  IF "accessRights" \notin keys THEN Raise("KeyError", <<"accessRights">>)
      ELSE IF /\ rights \in {"Unshared", "Restricted Closed Sharing"}
              /\ keys \cap {"availabilityStarts", "accessRightsInfo"} = {}
      THEN Raise("GovernanceError", <<"availabilityStarts">>)
      ELSE IF verify_is_past_date(pm, "availabilityStarts") = "invalid"
      THEN Raise("PropsError", <<"availabilityStarts">>)
      ELSE IF verify_is_past_date(pm, "availabilityStarts") = "past"
      THEN Raise("GovernanceError", <<"availabilityStarts">>)
      ELSE IF "gotInformedConsent" \notin keys
      THEN Raise("KeyError", <<"gotInformedConsent">>)
      ELSE IF /\ pm["gotInformedConsent"].s = "yes"
              /\ "informedConsentFormat" \notin keys
      THEN Raise("GovernanceError", <<"informedConsentFormat">>)
      ELSE IF dmp_metadata_ents = <<>>
      THEN Raise("GovernanceError", <<"DMPMetadata">>)
      ELSE IF h \notin Range(PropsOf(dmp_metadata_ents[1])["hasPart"].l)
      THEN Raise("GovernanceError", <<"hasPart">>)
      ELSE IF "repository" \notin keys \cup metakeys
      THEN Raise("GovernanceError", <<"repository">>)
      ELSE IF /\ rights = "Unrestricted Open Sharing"
              /\ "distribution" \notin keys \cup metakeys
      THEN Raise("GovernanceError", <<"distribution">>)
      ELSE IF "contentSize" \notin keys THEN Ok
      ELSE IF size # "over100GB" THEN Raise("ValueError", <<"contentSize">>)
      ELSE IF sum < 100 THEN Raise("GovernanceError", <<"contentSize">>)
      ELSE Ok

\* ginfork.REQUIRED_DIRECTORIES
REQUIRED_DIRECTORIES ==
  [with_code |-> <<"source", "input_data", "output_data">>,
   for_parameter |-> <<"source", "input_data">>]

\* pathlib.Path(path): its parent and its name, for the ids of the Datasets
Path(path) ==
  CASE path = "exp1/source/" -> [parent |-> "exp1", name |-> "source"]
    [] path = "exp1/input_data/" -> [parent |-> "exp1", name |-> "input_data"]
    [] path = "exp1/output_data/" -> [parent |-> "exp1", name |-> "output_data"]
    [] path = "exp2/input_data/" -> [parent |-> "exp2", name |-> "input_data"]

\* ginfork.GinMonitoring.validate
GinMonitoring_validate(h) ==
  LET pm == PropsOf(h)
      dirs == get_by_entity_type(<<"base", "Dataset">>)
      dir_paths == {Id[dirs[i]] : i \in DOMAIN dirs}
      required == REQUIRED_DIRECTORIES[pm["datasetStructure"].s]
      missing_dirs == SelectSeq(required, LAMBDA dir_name :
                        dir_name \notin {Path(path).name : path \in dir_paths})
      parent_dirs(dir_name) ==
        {Path(path).parent : path \in {q \in dir_paths : Path(q).name = dir_name}}
      shared ==
        IF pm["datasetStructure"].s = "for_parameter"
        THEN parent_dirs("source") \cap parent_dirs("input_data")
        ELSE parent_dirs("source") \cap parent_dirs("input_data")
               \cap parent_dirs("output_data")
      keys == Keys(pm)
      files == get_by_entity_type(<<"ginfork", "File">>)
      targets == SelectSeq(files,
                   LAMBDA e : PropsOf(e)["experimentPackageFlag"] = True)
      size == pm["contentSize"].s
      sum_size == SumSeq([i \in DOMAIN targets |->
                    SizeTable[PropsOf(targets[i])["contentSize"].s].num])
  IN  IF "about" \notin keys THEN Raise("KeyError", <<"about">>)
      ELSE IF \E i \in DOMAIN files :
                "experimentPackageFlag" \notin Keys(PropsOf(files[i]))
      THEN Raise("KeyError", <<"experimentPackageFlag">>)
      ELSE IF "contentSize" \notin keys
      THEN Raise("KeyError", <<"contentSize">>)
      ELSE IF size = "over100GB" THEN Raise("ValueError", <<"contentSize">>)
      ELSE IF "datasetStructure" \notin keys
      THEN Raise("KeyError", <<"datasetStructure">>)
      ELSE IF pm["datasetStructure"].s \notin DOMAIN REQUIRED_DIRECTORIES
      THEN Raise("KeyError", <<"datasetStructure">>)
      ELSE CollectEntityError(<<
        IF pm["about"] \notin {Ent(root), IdRef("./")} THEN "about" ELSE "",
        IF sum_size > SizeTable[size].num THEN "contentSize" ELSE "",
        IF Len(missing_dirs) > 0 THEN "datasetStructure" ELSE "",
        IF shared = {} THEN "datasetStructure" ELSE "" >>)

\* entity.validate(crate), by the class of the object
validate_of(h, net) ==
  CASE Cls[h] = <<"cao", "DMP">> -> cao_DMP_validate(h)
    [] Cls[h] = <<"cao", "DMPMetadata">> -> cao_DMPMetadata_validate(h)
    [] Cls[h] = <<"cao", "Person">> -> cao_Person_validate(h, net)
    [] Cls[h] = <<"cao", "File">> -> cao_File_validate(h)
    [] Cls[h] = <<"amed", "File">> -> amed_File_validate(h)
    [] Cls[h] = <<"ginfork", "File">> -> ginfork_File_validate(h)
    [] Cls[h] = <<"amed", "DMPMetadata">> -> amed_DMPMetadata_validate(h)
    [] Cls[h] = <<"amed", "DMP">> -> amed_DMP_validate(h)
    [] Cls[h] = <<"ginfork", "GinMonitoring">> -> GinMonitoring_validate(h)
    [] OTHER -> Ok


(***************************************************************************)
(* Serialization of one entity.                                            *)
(***************************************************************************)
\* a serialization that leaves the entity objects in place
Collapse_Inline(v) == v

\* a property value as as_jsonld emits it: an entity object becomes
\* {"@id": its id}, a list of entity objects the list of such references
Collapse(v) ==
  CASE v.k = "ent" -> IdRef(Id[v.s])
    [] v.k = "ents" -> IdRefs([i \in DOMAIN v.l |-> Id[v.l[i]]])
    [] OTHER -> v

\* Entity.as_jsonld(): the node of an entity
entity_as_jsonld(h) ==
  [id |-> Id[h], type |-> Type(h), context |-> Context(h),
   props |-> [p \in PropNames |-> Collapse(PropsOf(h)[p])]]

\* the classes whose as_jsonld calls self.check_props() first
ChecksOnEncode(c) ==
  c \in {<<"cao", "DMP">>, <<"cao", "DMPMetadata">>, <<"amed", "DMP">>,
         <<"amed", "DMPMetadata">>}

\* as_jsonld of a class that does not override it: the inherited method
\* calls check_props() before it serializes
inherited_as_jsonld_outcome(h) == check_props_of(h)

\* an as_jsonld that serializes without calling check_props()
as_jsonld_outcome_NoCheck(h) == Ok

\* what entity.as_jsonld() raises, "ok" when it returns the node
as_jsonld_outcome(h) ==
  IF ChecksOnEncode(Cls[h]) THEN check_props_of(h)
  ELSE inherited_as_jsonld_outcome(h)

(***************************************************************************)
(* ROCrate: the checks over the whole graph.                               *)
(***************************************************************************)
NoDoc == [context |-> <<>>, graph |-> <<>>]
NoEntity == [cls |-> NoClass, id |-> "", type |-> "", context |-> <<>>,
             props |-> NoProps]
NoCrate == [raised |-> "unset", root |-> NoEntity, default |-> <<>>,
            data |-> <<>>, contextual |-> <<>>]

\* what a call did: the error it raised ("none" when it returned), the
\* entity errors an aggregate error holds, the entities whose check ran,
\* the document as_jsonld returned, the graph ROCrate(jsonld=...) built
Result(op, args, raised, errors, visited, doc, decoded) ==
  [op |-> op, args |-> args, raised |-> raised, errors |-> errors,
   visited |-> visited, doc |-> doc, decoded |-> decoded]

\* the number of members of q equal to x: list.count(x)
Count(q, x) == Cardinality({i \in DOMAIN q : q[i] = x})

\* a duplicate check that compares the @id alone
dup_id_ctx_IdOnly(ents) ==
  LET ids == [i \in DOMAIN ents |-> Id[ents[i]]]
  IN  SelectSeq(ids, LAMBDA x : Count(ids, x) > 1)

\* ROCrate.check_duplicate_entity: the list dup_id_ctx
dup_id_ctx(ents) ==
  LET id_ctx == [i \in DOMAIN ents |-> <<Id[ents[i]], Context(ents[i])>>]
  IN  SelectSeq(id_ctx, LAMBDA x : Count(id_ctx, x) > 1)

\* ROCrate.check_duplicate_entity: the error it raises, "none" for a return
check_duplicate_entity(ents) ==
  IF Len(dup_id_ctx(ents)) > 0 THEN "CrateError" ELSE "none"

\* a loop whose except clause catches every error class
Aggregate_CatchesAll(ents, outs, aggregate) ==
  LET caught == SelectSeq([i \in DOMAIN ents |-> i],
                          LAMBDA i : outs[i].kind # "ok")
      errors == [n \in DOMAIN caught |->
                   [entity |-> ents[caught[n]], msgs |-> outs[caught[n]].msgs]]
  IN  [raised |-> IF errors # <<>> THEN aggregate ELSE "none",
       errors |-> errors,
       collected |-> errors,
       visited |-> ents]

\* the loop of ROCrate.check_props and ROCrate.validate over the outcomes
\* outs of the entities ents: an EntityError is added to the aggregate, any
\* other error is raised again at once, the aggregate is raised at the end
\* when it holds an error
Aggregate(ents, outs, aggregate) ==
  LET fatal == {i \in DOMAIN outs :
                  outs[i].kind # "ok" /\ ~IsEntityError(outs[i].kind)}
      stop == IF fatal = {} THEN 0
              ELSE CHOOSE i \in fatal : \A j \in fatal : i <= j
      seen == IF stop = 0 THEN Len(ents) ELSE stop
      caught == SelectSeq([i \in 1..seen |-> i],
                          LAMBDA i : IsEntityError(outs[i].kind))
      errors == [n \in DOMAIN caught |->
                   [entity |-> ents[caught[n]], msgs |-> outs[caught[n]].msgs]]
  IN  [raised |-> IF stop # 0 THEN outs[stop].kind
                  ELSE IF errors # <<>> THEN aggregate
                  ELSE "none",
       errors |-> IF stop # 0 THEN <<>> ELSE errors,
       collected |-> errors,
       visited |-> SubSeq(ents, 1, seen)]

\* a check_props that does not report again the entities its last run
\* reported
crate_check_props_ReportsOnce(ents) ==
  LET again == SelectSeq(ents, LAMBDA e :
                 \/ call.op # "check_props"
                 \/ \A i \in DOMAIN call.errors : call.errors[i].entity # e)
  IN  Aggregate(again, [i \in DOMAIN again |-> check_props_of(again[i])],
                "CrateCheckPropsError")

\* ROCrate.check_props
crate_check_props(ents) ==
  Aggregate(ents, [i \in DOMAIN ents |-> check_props_of(ents[i])],
            "CrateCheckPropsError")

\* ROCrate.validate
crate_validate(ents, net) ==
  Aggregate(ents, [i \in DOMAIN ents |-> validate_of(ents[i], net)],
            "CrateValidationError")

\* an as_jsonld that does not call check_duplicate_entity
crate_as_jsonld_NoDuplicateCheck(ents) ==
  LET checked == crate_check_props(ents)
  IN  IF checked.raised # "none"
      THEN Result("as_jsonld", <<>>, checked.raised, checked.errors,
                  checked.visited, NoDoc, NoCrate)
      ELSE Result("as_jsonld", <<>>, "none", <<>>, checked.visited,
                  [context |-> RO_CRATE_CONTEXT,
                   graph |-> [i \in DOMAIN ents |-> entity_as_jsonld(ents[i])]],
                  NoCrate)

\* an as_jsonld that checks the structure before it looks for duplicates
crate_as_jsonld_PropsFirst(ents) ==
  LET checked == crate_check_props(ents)
      encoded == [i \in DOMAIN ents |-> as_jsonld_outcome(ents[i])]
      failing == {i \in DOMAIN ents : encoded[i].kind # "ok"}
  IN  IF checked.raised # "none"
      THEN Result("as_jsonld", <<>>, checked.raised, checked.errors,
                  checked.visited, NoDoc, NoCrate)
      ELSE IF check_duplicate_entity(ents) # "none"
      THEN Result("as_jsonld", <<>>, check_duplicate_entity(ents), <<>>,
                  checked.visited, NoDoc, NoCrate)
      ELSE IF failing # {}
      THEN Result("as_jsonld", <<>>,
                  encoded[CHOOSE i \in failing : \A j \in failing : i <= j].kind,
                  <<>>, checked.visited, NoDoc, NoCrate)
      ELSE Result("as_jsonld", <<>>, "none", <<>>, checked.visited,
                  [context |-> RO_CRATE_CONTEXT,
                   graph |-> [i \in DOMAIN ents |-> entity_as_jsonld(ents[i])]],
                  NoCrate)

\* ROCrate.as_jsonld
crate_as_jsonld(ents) ==
  LET checked == crate_check_props(ents)
      encoded == [i \in DOMAIN ents |-> as_jsonld_outcome(ents[i])]
      failing == {i \in DOMAIN ents : encoded[i].kind # "ok"}
  IN  IF check_duplicate_entity(ents) # "none"
      THEN Result("as_jsonld", <<>>, check_duplicate_entity(ents), <<>>, <<>>,
                  NoDoc, NoCrate)
      ELSE IF checked.raised # "none"
      THEN Result("as_jsonld", <<>>, checked.raised, checked.errors,
                  checked.visited, NoDoc, NoCrate)
      ELSE IF failing # {}
      THEN Result("as_jsonld", <<>>,
                  encoded[CHOOSE i \in failing : \A j \in failing : i <= j].kind,
                  <<>>, checked.visited, NoDoc, NoCrate)
      ELSE Result("as_jsonld", <<>>, "none", <<>>, checked.visited,
                  [context |-> RO_CRATE_CONTEXT,
                   graph |-> [i \in DOMAIN ents |-> entity_as_jsonld(ents[i])]],
                  NoCrate)


(***************************************************************************)
(* ROCrate(jsonld=doc): from_jsonld, then the hasPart assignment of        *)
(* __init__.                                                               *)
(***************************************************************************)
\* parse_ctx(ctx): the schema name the context names, "" when it names none
parse_ctx(ctx) == IF Len(ctx) = 3 THEN ctx[3] ELSE ""

\* import_custom_class("nii_dg.schema.<schema>", type_): None is NoClass
import_custom_class(schema, type) ==
  IF <<schema, type>> \in SchemaClasses THEN <<schema, type>> ELSE NoClass

\* cls.from_jsonld(node): an instance of cls with the node's id and
\* properties
entity_from_jsonld(c, node) ==
  [cls |-> c, id |-> node.id, type |-> TypeOfClass(c),
   context |-> ContextOfSchema(c[1]), props |-> node.props]

\* the loop of from_jsonld over the nodes
RECURSIVE from_jsonld_loop(_, _)
from_jsonld_loop(nodes, cr) ==
  IF nodes = <<>> THEN cr
  ELSE
    LET node == Head(nodes)
        schema == parse_ctx(node.context)
        entity_class == import_custom_class(schema, node.type)
        entity_instance == entity_from_jsonld(entity_class, node)
    IN  IF node.id = "./" /\ node.type = "Dataset"
        THEN from_jsonld_loop(Tail(nodes),
               [cr EXCEPT !.root =
                  entity_from_jsonld(<<"base", "RootDataEntity">>, node)])
        ELSE IF node.id = "ro-crate-metadata.json" /\ node.type = "CreativeWork"
        THEN from_jsonld_loop(Tail(nodes),
               [cr EXCEPT !.metadata =
                  entity_from_jsonld(<<"base", "ROCrateMetadata">>, node)])
        ELSE IF entity_class = NoClass
        THEN [cr EXCEPT !.raised = "ValueError"]
        ELSE IF VariantOfClass(entity_class) = "Data"
        THEN from_jsonld_loop(Tail(nodes),
               [cr EXCEPT !.data = Append(@, entity_instance)])
        ELSE IF VariantOfClass(entity_class) = "Contextual"
        THEN from_jsonld_loop(Tail(nodes),
               [cr EXCEPT !.contextual = Append(@, entity_instance)])
        ELSE [cr EXCEPT !.raised = "ValueError"]

\* a from_jsonld that keeps no contextual entity
from_jsonld_DropsContextual(doc) ==
  LET start == [raised |-> "none", root |-> NoEntity, metadata |-> NoEntity,
                data |-> <<>>, contextual |-> <<>>]
      cr == from_jsonld_loop(doc.graph, start)
  IN  IF doc.context # RO_CRATE_CONTEXT \/ cr.raised # "none"
      THEN [NoCrate EXCEPT !.raised = "ValueError"]
      ELSE [raised |-> "none", root |-> cr.root,
            default |-> <<cr.root, cr.metadata>>,
            data |-> cr.data, contextual |-> <<>>]

\* ROCrate.from_jsonld
from_jsonld(doc) ==
  LET start == [raised |-> "none", root |-> NoEntity, metadata |-> NoEntity,
                data |-> <<>>, contextual |-> <<>>]
      cr == from_jsonld_loop(doc.graph, start)
  IN  IF doc.context # RO_CRATE_CONTEXT
      THEN [NoCrate EXCEPT !.raised = "ValueError"]
      ELSE IF cr.raised # "none" \/ cr.root = NoEntity \/ cr.metadata = NoEntity
      THEN [NoCrate EXCEPT !.raised = "ValueError"]
      ELSE [raised |-> "none", root |-> cr.root,
            default |-> <<cr.root, cr.metadata>>,
            data |-> cr.data, contextual |-> cr.contextual]

\* the ids of a sequence of decoded entities
IdsOf(q) == [i \in DOMAIN q |-> q[i].id]

\* ROCrate.__init__ with a document
construct_from(doc) ==
  LET cr == from_jsonld(doc)
      has_part == [k |-> "dents", s |-> "", l |-> IdsOf(cr.data)]
      new_root == [cr.root EXCEPT !.props["hasPart"] = has_part]
  IN  IF cr.raised # "none" THEN cr
      ELSE [cr EXCEPT !.root = new_root, !.default = <<new_root, cr.default[2]>>]

(***************************************************************************)
(* add and remove.                                                         *)
(***************************************************************************)
\* list.remove(x): q without its first member equal to x
RemoveFirst(q, x) ==
  LET at == CHOOSE i \in DOMAIN q : q[i] = x /\ \A j \in 1..(i - 1) : q[j] # x
  IN  SubSeq(q, 1, at - 1) \o SubSeq(q, at + 1, Len(q))

\* an add that appends a data entity to contextual_entities
RECURSIVE add_loop_DataToContextual(_, _)
add_loop_DataToContextual(args, g) ==
  IF args = <<>> THEN g
  ELSE
    LET entity == Head(args)
    IN  CASE Variant(entity) = "Default" ->
               add_loop_DataToContextual(Tail(args),
                 [g EXCEPT !.default = Append(@, entity)])
          [] Variant(entity) \in {"Data", "Contextual"} ->
               add_loop_DataToContextual(Tail(args),
                 [g EXCEPT !.contextual = Append(@, entity)])
          [] OTHER -> [g EXCEPT !.raised = "TypeError"]

\* the loop of ROCrate.add over its arguments
RECURSIVE add_loop(_, _)
add_loop(args, g) ==
  IF args = <<>> THEN g
  ELSE
    LET entity == Head(args)
    IN  CASE Variant(entity) = "Default" ->
               add_loop(Tail(args), [g EXCEPT !.default = Append(@, entity)])
          [] Variant(entity) = "Data" ->
               add_loop(Tail(args), [g EXCEPT !.data = Append(@, entity)])
          [] Variant(entity) = "Contextual" ->
               add_loop(Tail(args), [g EXCEPT !.contextual = Append(@, entity)])
          [] OTHER -> [g EXCEPT !.raised = "TypeError"]

\* a remove that removes a default entity as it removes the others
RECURSIVE remove_loop_AlsoDefault(_, _)
remove_loop_AlsoDefault(args, g) ==
  IF args = <<>> THEN g
  ELSE
    LET entity == Head(args)
    IN  IF entity \notin Range(g.default \o g.data \o g.contextual)
        THEN [g EXCEPT !.raised = "ValueError"]
        ELSE CASE Variant(entity) = "Default" ->
                    remove_loop_AlsoDefault(Tail(args),
                      [g EXCEPT !.default = RemoveFirst(@, entity)])
               [] Variant(entity) = "Data" ->
                    remove_loop_AlsoDefault(Tail(args),
                      [g EXCEPT !.data = RemoveFirst(@, entity)])
               [] Variant(entity) = "Contextual" ->
                    remove_loop_AlsoDefault(Tail(args),
                      [g EXCEPT !.contextual = RemoveFirst(@, entity)])
               [] OTHER -> [g EXCEPT !.raised = "TypeError"]

\* a remove that passes over an entity the graph does not hold
RECURSIVE remove_loop_SkipsAbsent(_, _)
remove_loop_SkipsAbsent(args, g) ==
  IF args = <<>> THEN g
  ELSE
    LET entity == Head(args)
    IN  IF entity \notin Range(g.default \o g.data \o g.contextual)
        THEN remove_loop_SkipsAbsent(Tail(args), g)
        ELSE CASE Variant(entity) = "Default" ->
                    [g EXCEPT !.raised = "ValueError"]
               [] Variant(entity) = "Data" ->
                    remove_loop_SkipsAbsent(Tail(args),
                      [g EXCEPT !.data = RemoveFirst(@, entity)])
               [] Variant(entity) = "Contextual" ->
                    remove_loop_SkipsAbsent(Tail(args),
                      [g EXCEPT !.contextual = RemoveFirst(@, entity)])
               [] OTHER -> [g EXCEPT !.raised = "TypeError"]

\* the loop of ROCrate.remove over its arguments
RECURSIVE remove_loop(_, _)
remove_loop(args, g) ==
  IF args = <<>> THEN g
  ELSE
    LET entity == Head(args)
    IN  IF entity \notin Range(g.default \o g.data \o g.contextual)
        THEN [g EXCEPT !.raised = "ValueError"]
        ELSE CASE Variant(entity) = "Default" ->
                    [g EXCEPT !.raised = "ValueError"]
               [] Variant(entity) = "Data" ->
                    remove_loop(Tail(args),
                      [g EXCEPT !.data = RemoveFirst(@, entity)])
               [] Variant(entity) = "Contextual" ->
                    remove_loop(Tail(args),
                      [g EXCEPT !.contextual = RemoveFirst(@, entity)])
               [] OTHER -> [g EXCEPT !.raised = "TypeError"]

\* the three sequences as one value
Graph == [raised |-> "none", default |-> default_entities,
          data |-> data_entities, contextual |-> contextual_entities]

(***************************************************************************)
(* The state machine.                                                      *)
(***************************************************************************)
InitCall == Result("init", <<>>, "none", <<>>, <<>>, NoDoc, NoCrate)

\* ROCrate(): the graph after __init__ without a document
Init ==
  /\ \E c \in [Varying -> 1..2] :
       profile = [h \in Handles |->
                    CallerProfiles(h)[IF h \in Varying THEN c[h] ELSE 1]]
  /\ root = "root"
  /\ default_entities = <<"root", "meta">>
  /\ data_entities = <<>>
  /\ contextual_entities = <<>>
  /\ call = InitCall

\* ROCrate.add(*args)
AddArgs(args) ==
  LET g == add_loop(args, Graph)
  IN  /\ default_entities' = g.default
      /\ data_entities' = g.data
      /\ contextual_entities' = g.contextual
      /\ call' = Result("add", args, g.raised, <<>>, <<>>, NoDoc, NoCrate)
      /\ UNCHANGED <<profile, root>>

\* a call add(e) of the caller; add(e1, e2) does what add(e1) followed by
\* add(e2) does, the second call omitted when the first one raises
Add ==
  \E e \in Pool :
    /\ Len(all_entities) < 2 + MaxAdded
    /\ AddArgs(<<e>>)

\* ROCrate.remove(*args)
RemoveArgs(args) ==
  LET g == remove_loop(args, Graph)
  IN  /\ default_entities' = g.default
      /\ data_entities' = g.data
      /\ contextual_entities' = g.contextual
      /\ call' = Result("remove", args, g.raised, <<>>, <<>>, NoDoc, NoCrate)
      /\ UNCHANGED <<profile, root>>

\* a call remove(e) of the caller
Remove == \E e \in RemovePool : RemoveArgs(<<e>>)

\* ROCrate.check_duplicate_entity()
CheckDuplicateEntity ==
  /\ call' = Result("check_duplicate_entity", <<>>,
                    check_duplicate_entity(all_entities), <<>>, <<>>, NoDoc,
                    NoCrate)
  /\ UNCHANGED <<profile, root, default_entities, data_entities,
                 contextual_entities>>

\* ROCrate.check_props()
CheckProps ==
  LET r == crate_check_props(all_entities)
  IN  /\ call' = Result("check_props", <<>>, r.raised, r.errors, r.visited,
                        NoDoc, NoCrate)
      /\ UNCHANGED <<profile, root, default_entities, data_entities,
                     contextual_entities>>

\* the outcomes the network probe can have during one validate(): the
\* probe runs only when the graph holds a Person
NetChoices ==
  IF \E e \in Range(all_entities) : Cls[e] = <<"cao", "Person">>
  THEN NetOutcomes ELSE {"ok"}

\* ROCrate.validate()
Validate ==
  \E net \in NetChoices :
    LET r == crate_validate(all_entities, net)
    IN  /\ call' = Result("validate", <<>>, r.raised, r.errors, r.visited,
                          NoDoc, NoCrate)
        /\ UNCHANGED <<profile, root, default_entities, data_entities,
                       contextual_entities>>

\* ROCrate.as_jsonld()
AsJsonld ==
  /\ call' = crate_as_jsonld(all_entities)
  /\ UNCHANGED <<profile, root, default_entities, data_entities,
                 contextual_entities>>

\* ROCrate(jsonld=doc) on the document the last as_jsonld() returned
FromJsonld ==
  /\ call.op = "as_jsonld"
  /\ call.raised = "none"
  /\ call' = Result("from_jsonld", <<>>, construct_from(call.doc).raised, <<>>,
                    <<>>, call.doc, construct_from(call.doc))
  /\ UNCHANGED <<profile, root, default_entities, data_entities,
                 contextual_entities>>

Next ==
  \/ Add
  \/ Remove
  \/ CheckDuplicateEntity
  \/ CheckProps
  \/ Validate
  \/ AsJsonld
  \/ FromJsonld

Spec == Init /\ [][Next]_vars

(***************************************************************************)
(* The end-to-end example (tests/examples/example_complete.py): a fresh    *)
(* graph, every object given all the properties its kind requires, each    *)
(* object added at most once, in any order.                                *)
(***************************************************************************)
InitExample ==
  /\ profile = ValidProfile
  /\ root = "root"
  /\ default_entities = <<"root", "meta">>
  /\ data_entities = <<>>
  /\ contextual_entities = <<>>
  /\ call = InitCall

AddOnce ==
  \E e \in ExamplePool :
    /\ e \notin Range(all_entities)
    /\ AddArgs(<<e>>)

NextExample ==
  \/ AddOnce
  \/ AsJsonld
  \/ Validate
  \/ FromJsonld

SpecExample == InitExample /\ [][NextExample]_vars

(***************************************************************************)
(* ROCrate(jsonld=doc) on the documents a caller can hand in: any sequence *)
(* of nodes, under the RO-Crate context or another one.                    *)
(***************************************************************************)
\* a node with id "./" and type "Dataset"
RootNode(n) ==
  [id |-> "./", type |-> "Dataset", context |-> ContextOfSchema("base"),
   props |-> WithProps(<<"name">>, <<Str(n)>>)]

\* a node with id "ro-crate-metadata.json" and type "CreativeWork"
MetadataNode(n) ==
  [id |-> "ro-crate-metadata.json", type |-> "CreativeWork",
   context |-> ContextOfSchema("base"),
   props |-> WithProps(<<"about", "name">>, <<IdRef("./"), Str(n)>>)]

\* the nodes a document is made of: root and metadata nodes, the node of a
\* data entity, and a node whose type no schema module defines
DocNodes ==
  {RootNode("first"), RootNode("second"), MetadataNode("first"),
   MetadataNode("second")}
    \cup {[id |-> Id["gf1"], type |-> t, context |-> ContextOfSchema("ginfork"),
            props |-> ValidGinFile] : t \in {"File", "NoSuchType"}}

\* the documents: up to MaxNodes nodes in any order
Documents ==
  [context : {RO_CRATE_CONTEXT, <<"https://example.com/other-context">>},
   graph : UNION {[1..n -> DocNodes] : n \in 0..MaxNodes}]

InitDecode ==
  /\ profile = ValidProfile
  /\ root = "root"
  /\ default_entities = <<"root", "meta">>
  /\ data_entities = <<>>
  /\ contextual_entities = <<>>
  /\ \E doc \in Documents :
       call = Result("document", <<>>, "none", <<>>, <<>>, doc, NoCrate)

\* ROCrate(jsonld=doc) on the document of the caller
Construct ==
  /\ call.op = "document"
  /\ call' = Result("from_jsonld", <<>>, construct_from(call.doc).raised, <<>>,
                    <<>>, call.doc, construct_from(call.doc))
  /\ UNCHANGED <<profile, root, default_entities, data_entities,
                 contextual_entities>>

NextDecode == Construct

SpecDecode == InitDecode /\ [][NextDecode]_vars

(***************************************************************************)
(* One entity in the hands of its caller: properties are set and deleted,  *)
(* and check_props() and as_jsonld() are called on the entity itself.      *)
(* call.args[1] is the entity.                                             *)
(***************************************************************************)
\* the entities the caller works on
Subjects == {"gf1", "af", "cmeta"}

\* the entity is constructed with any of the property dicts made of its
\* toggles; every other object has its valid properties
InitEntity ==
  /\ root = "root"
  /\ default_entities = <<"root", "meta">>
  /\ data_entities = <<>>
  /\ contextual_entities = <<>>
  /\ \E h \in Subjects :
       /\ call = Result("entity", <<h>>, "none", <<>>, <<>>, NoDoc, NoCrate)
       /\ \E n \in DOMAIN MaskBags(Toggles(h)) :
            profile = [ValidProfile EXCEPT ![h] = MaskBags(Toggles(h))[n]]

\* entity[p] = value
SetItem ==
  \E i \in DOMAIN Toggles(call.args[1]) :
   \E k \in DOMAIN Toggles(call.args[1])[i][2] :
    LET h == call.args[1]
        p == Toggles(h)[i][1]
        pm == [props(h) EXCEPT ![p] = Toggles(h)[i][2][k]]
    IN  /\ props(h)[p] # Toggles(h)[i][2][k]
        /\ profile' = [profile EXCEPT ![h] = pm]
        /\ call' = Result("setitem", <<h, p>>, "none", <<>>, <<>>, NoDoc,
                          NoCrate)
        /\ UNCHANGED <<root, default_entities, data_entities,
                       contextual_entities>>

\* del entity[p]
DelItem ==
  \E i \in DOMAIN Toggles(call.args[1]) :
    LET h == call.args[1]
        p == Toggles(h)[i][1]
        pm == [props(h) EXCEPT ![p] = Absent]
    IN  /\ props(h)[p] # Absent
        /\ profile' = [profile EXCEPT ![h] = pm]
        /\ call' = Result("delitem", <<h, p>>, "none", <<>>, <<>>, NoDoc,
                          NoCrate)
        /\ UNCHANGED <<root, default_entities, data_entities,
                       contextual_entities>>

\* the error of an entity as a call returns it
EntityErrors(h, out) ==
  IF out.kind = "ok" THEN <<>> ELSE <<[entity |-> h, msgs |-> out.msgs]>>

\* entity.check_props()
EntityCheckProps ==
  LET h == call.args[1]
      out == check_props_of(h)
  IN  /\ call' = Result("entity.check_props", <<h>>,
                        IF out.kind = "ok" THEN "none" ELSE out.kind,
                        EntityErrors(h, out), <<h>>, NoDoc, NoCrate)
      /\ UNCHANGED <<profile, root, default_entities, data_entities,
                     contextual_entities>>

\* entity.as_jsonld(): the node is the one node of call.doc
EntityAsJsonld ==
  LET h == call.args[1]
      out == as_jsonld_outcome(h)
  IN  /\ call' = Result("entity.as_jsonld", <<h>>,
                        IF out.kind = "ok" THEN "none" ELSE out.kind,
                        EntityErrors(h, out), <<h>>,
                        IF out.kind = "ok"
                        THEN [context |-> RO_CRATE_CONTEXT,
                              graph |-> <<entity_as_jsonld(h)>>]
                        ELSE NoDoc,
                        NoCrate)
      /\ UNCHANGED <<profile, root, default_entities, data_entities,
                     contextual_entities>>

NextEntity ==
  \/ SetItem
  \/ DelItem
  \/ EntityCheckProps
  \/ EntityAsJsonld

SpecEntity == InitEntity /\ [][NextEntity]_vars

(***************************************************************************)
(* One entity and the crate it is validated against: the caller sets and   *)
(* deletes properties of the entity, adds the entities its rules look at,  *)
(* and calls validate(crate) on the entity itself.                         *)
(***************************************************************************)
\* the entities whose governance rules are exercised, each with the
\* entities its validate looks for in the crate
Related(h) ==
  CASE h = "dmp" -> {"cmeta", "cfile"}
    [] h = "admp" -> {"ameta", "af"}
    [] h = "gmon" -> {"gpkg", "gf2", "dsrc", "din", "dout", "din2"}
    [] h = "cmeta" -> {"dmp", "dmp2"}
    [] h = "ameta" -> {"admp"}
    [] OTHER -> {}

InitGovern ==
  /\ root = "root"
  /\ default_entities = <<"root", "meta">>
  /\ data_entities = <<>>
  /\ contextual_entities = <<>>
  /\ \E h \in {"dmp", "admp", "gmon", "af", "apath", "gf1", "gpkg", "cmeta",
                "ameta"} :
       /\ call = Result("entity", <<h>>, "none", <<>>, <<>>, NoDoc, NoCrate)
       /\ \E n \in DOMAIN MaskBags(Toggles(h)),
             r \in {ValidProfile["root"]}
                     \cup Range(MaskBags(Toggles("root"))) :
            /\ r # ValidProfile["root"] => Cls[h][2] = "DMPMetadata"
            /\ profile = [ValidProfile EXCEPT
                            !["root"] = r, ![h] = MaskBags(Toggles(h))[n]]

\* crate.add(e) for an entity the rules of the entity look at
AddRelated ==
  \E e \in Related(call.args[1]) :
    LET g == add_loop(<<e>>, Graph)
    IN  /\ e \notin Range(all_entities)
        /\ Len(all_entities) < 2 + MaxAdded
        /\ default_entities' = g.default
        /\ data_entities' = g.data
        /\ contextual_entities' = g.contextual
        /\ call' = Result("add", <<call.args[1], e>>, g.raised, <<>>, <<>>,
                          NoDoc, NoCrate)
        /\ UNCHANGED <<profile, root>>

\* entity.validate(crate)
EntityValidate ==
  LET h == call.args[1]
      out == validate_of(h, "ok")
  IN  /\ call' = Result("entity.validate", <<h>>,
                        IF out.kind = "ok" THEN "none" ELSE out.kind,
                        EntityErrors(h, out), <<h>>, NoDoc, NoCrate)
      /\ UNCHANGED <<profile, root, default_entities, data_entities,
                     contextual_entities>>

NextGovern ==
  \/ SetItem
  \/ DelItem
  \/ AddRelated
  \/ EntityValidate

SpecGovern == InitGovern /\ [][NextGovern]_vars

(***************************************************************************)
(* utils.py on the values of a caller: check_content_size and the split of *)
(* a size string into number and unit, on strings kept as sequences of     *)
(* characters; convert_string_type_to_python_type on bare class names.     *)
(***************************************************************************)
\* the strings handed to check_content_size: every string of up to
\* MaxSizeLen of these characters, and the sentinel
SizeStrings ==
  UNION {[1..n -> {"1", "0", "G", "K", "B", "x"}] : n \in 0..MaxSizeLen}
    \cup {<<"o", "v", "e", "r", "1", "0", "0", "G", "B">>}

\* int(text) raises ValueError: text is not a run of one or more digits
int_fails(text) ==
  \/ text = <<>>
  \/ \E i \in DOMAIN text :
       text[i] \notin {"0", "1", "2", "3", "4", "5", "6", "7", "8", "9"}

\* check_content_size(value): fullmatch of ^\d+[KMGTP]?B$, the error raised
check_content_size(value) ==
  LET n == Len(value)
      prefixed == n >= 2 /\ value[n - 1] \in {"K", "M", "G", "T", "P"}
      digits == SubSeq(value, 1, IF prefixed THEN n - 2 ELSE n - 1)
  IN  IF n >= 1 /\ value[n] = "B" /\ ~int_fails(digits)
      THEN "none" ELSE "ValueError"

\* the bare type names and the schema names handed to
\* convert_string_type_to_python_type; "" is a schema name not given
TypeRequests ==
  {"File", "Person", "DMP", "DMPMetadata", "HostingInstitution",
   "RootDataEntity", "GinMonitoring", "NoSuchEntity"}
    \X {"", "base", "cao", "amed", "ginfork", "nosuch"}

\* convert_string_type_to_python_type(type_str, schema_name) for a type_str
\* that is a bare name: the class, or the PropsError and the name in its
\* message
convert_string_type_to_python_type(type_str, schema) ==
  LET entity_class ==
        ResolveEntityClass(type_str, IF schema = "" THEN "base" ELSE schema)
  IN  IF entity_class = NoClass
      THEN [raised |-> "PropsError", names |-> <<type_str>>, cls |-> NoClass]
      ELSE [raised |-> "none", names |-> <<>>, cls |-> entity_class]

\* a string of the program, kept as its characters, as one value
RECURSIVE Join(_)
Join(chars) == IF chars = <<>> THEN "" ELSE Head(chars) \o Join(Tail(chars))

\* sep.join(parts) for sequences
RECURSIVE JoinWith(_, _)
JoinWith(parts, sep) ==
  IF Len(parts) = 0 THEN <<>>
  ELSE IF Len(parts) = 1 THEN parts[1]
  ELSE parts[1] \o sep \o JoinWith(Tail(parts), sep)

\* text.split(", ")
RECURSIVE split(_)
split(text) ==
  LET at == {i \in 1..(Len(text) - 1) : text[i] = "," /\ text[i + 1] = " "}
      i == CHOOSE j \in at : \A k \in at : j <= k
  IN  IF at = {} THEN <<text>>
      ELSE <<SubSeq(text, 1, i - 1)>> \o split(SubSeq(text, i + 2, Len(text)))

\* the type expressions of the catalogs, by nesting depth: the atoms str,
\* File and Literal["a", "b"], and List[...], Optional[...] and
\* Union[..., ...] of shallower expressions, one member of a Union an atom
RECURSIVE TypeExprs(_)
TypeExprs(depth) ==
  LET atoms == {<<"s", "t", "r">>, <<"F", "i", "l", "e">>,
                <<"L", "i", "t", "e", "r", "a", "l", "[", "\"", "a", "\"",
                  ",", " ", "\"", "b", "\"", "]">>}
      shallower == TypeExprs(depth - 1)
      two(t, u) == <<"U", "n", "i", "o", "n", "[">> \o t \o <<",", " ">> \o u
                     \o <<"]">>
  IN  IF depth = 0 THEN atoms
      ELSE shallower
             \cup {<<"L", "i", "s", "t", "[">> \o t \o <<"]">> : t \in shallower}
             \cup {<<"O", "p", "t", "i", "o", "n", "a", "l", "[">> \o t \o <<"]">> :
                     t \in shallower}
             \cup {two(a, t) : a \in atoms, t \in shallower}
             \cup {two(t, a) : a \in atoms, t \in shallower}

\* convert_string_type_to_python_type(type_str, schema_name) for any
\* type_str: the type as a term, or the PropsError and the string in its
\* message
RECURSIVE convert_type_str(_, _)
convert_type_str(type_str, schema) ==
  LET startswith(p) ==
        Len(type_str) >= Len(p) /\ SubSeq(type_str, 1, Len(p)) = p
      \* type_str[k:-1]
      slice(k) == SubSeq(type_str, k + 1, Len(type_str) - 1)
      strip(t, c) ==
        LET keep == {i \in DOMAIN t : t[i] # c}
        IN  IF keep = {} THEN <<>>
            ELSE SubSeq(t, CHOOSE i \in keep : \A k \in keep : i <= k,
                        CHOOSE i \in keep : \A k \in keep : i >= k)
      returns(t) == [raised |-> "none", msg |-> "", type |-> t]
      unexpected ==
        [raised |-> "PropsError", msg |-> Join(type_str), type |-> <<>>]
      of(tag, r) ==
        IF r.raised # "none" THEN r
        ELSE returns(<<tag, "[">> \o r.type \o <<"]">>)
  IN  IF type_str = <<"b", "o", "o", "l">> THEN returns(<<"bool">>)
      ELSE IF type_str = <<"s", "t", "r">> THEN returns(<<"str">>)
      ELSE IF type_str = <<"i", "n", "t">> THEN returns(<<"int">>)
      ELSE IF type_str = <<"f", "l", "o", "a", "t">> THEN returns(<<"float">>)
      ELSE IF type_str = <<"A", "n", "y">> THEN returns(<<"Any">>)
      ELSE IF startswith(<<"L", "i", "s", "t", "[">>)
      THEN of("List", convert_type_str(slice(5), schema))
      ELSE IF startswith(<<"U", "n", "i", "o", "n", "[">>)
      THEN LET parts == split(slice(6))
               child_types == [i \in DOMAIN parts |->
                                 convert_type_str(parts[i], schema)]
               failed == {i \in DOMAIN parts : child_types[i].raised # "none"}
           IN  IF failed # {}
               THEN child_types[CHOOSE i \in failed : \A k \in failed : i <= k]
               ELSE returns(<<"Union", "[">>
                              \o JoinWith([i \in DOMAIN parts |->
                                             child_types[i].type], <<",">>)
                              \o <<"]">>)
      ELSE IF startswith(<<"O", "p", "t", "i", "o", "n", "a", "l", "[">>)
      THEN of("Optional", convert_type_str(slice(5), schema))
      ELSE IF startswith(<<"L", "i", "t", "e", "r", "a", "l", "[">>)
      THEN LET parts == split(slice(8))
           IN  returns(<<"Literal", "[">>
                         \o JoinWith([i \in DOMAIN parts |->
                                        <<Join(strip(strip(parts[i], "\""),
                                                     "'"))>>], <<",">>)
                         \o <<"]">>)
      ELSE IF \E i \in DOMAIN type_str : type_str[i] = "[" THEN unexpected
      ELSE LET r == convert_string_type_to_python_type(Join(type_str),
                                                       schema)
           IN  IF r.raised # "none" THEN unexpected
               ELSE returns(<<"Entity", r.cls[1], r.cls[2]>>)

\* access_url(url), by what requests.get does: a response with a status
\* (raise_for_status raises HTTPError for 400..599), or a timeout or a
\* connection failure; the error raised
access_url(res) ==
  IF res.kind = "response"
  THEN IF res.status >= 400 /\ res.status < 600
       THEN "GovernanceError" ELSE "none"
  ELSE "UnexpectedImplementationError"

\* get_name_from_ror(ror_id), by what requests.get does; the error raised
get_name_from_ror(res) ==
  IF res.kind = "response"
  THEN IF res.status >= 400 /\ res.status < 600
       THEN IF res.status = 404 THEN "GovernanceError"
            ELSE "UnexpectedImplementationError"
       ELSE "none"
  ELSE "UnexpectedImplementationError"

InitUtils ==
  /\ profile = ValidProfile
  /\ root = "root"
  /\ default_entities = <<"root", "meta">>
  /\ data_entities = <<>>
  /\ contextual_entities = <<>>
  /\ \/ \E value \in SizeStrings :
          call = Result("size", <<value>>, "none", <<>>, <<>>, NoDoc, NoCrate)
     \/ \E req \in TypeRequests :
          call = Result("type", req, "none", <<>>, <<>>, NoDoc, NoCrate)
     \/ \E res \in [kind : {"response"}, status : {200, 403, 404, 500}]
                   \cup [kind : {"timeout", "connection"}, status : {0}] :
          call = Result("requests.get", <<res>>, "none", <<>>, <<>>, NoDoc,
                        NoCrate)
     \/ \E type_str \in TypeExprs(MaxTypeDepth), schema \in {"", "cao"} :
          call = Result("type_str", <<type_str, schema>>, "none", <<>>, <<>>,
                        NoDoc, NoCrate)

\* check_content_size(value)
CheckContentSize ==
  /\ call.op = "size"
  /\ call' = Result("check_content_size", call.args,
                    check_content_size(call.args[1]), <<>>, <<>>, NoDoc,
                    NoCrate)
  /\ UNCHANGED <<profile, root, default_entities, data_entities,
                 contextual_entities>>

\* the summation step on a size that passed the check: int(value[:-2]) and
\* value[-2:]; visited holds the unit
SplitSize ==
  LET value == call.args[1]
      n == Len(value)
  IN  /\ call.op = "check_content_size"
      /\ call.raised = "none"
      /\ call' = Result("split", call.args,
                        IF int_fails(SubSeq(value, 1, n - 2))
                        THEN "ValueError" ELSE "none",
                        <<>>, SubSeq(value, n - 1, n), NoDoc, NoCrate)
      /\ UNCHANGED <<profile, root, default_entities, data_entities,
                     contextual_entities>>

\* convert_string_type_to_python_type(type_str, schema_name); errors holds
\* the name the message of the PropsError contains, visited the class
ConvertType ==
  LET r == convert_string_type_to_python_type(call.args[1], call.args[2])
  IN  /\ call.op = "type"
      /\ call' = Result("convert", call.args, r.raised, r.names, <<r.cls>>,
                        NoDoc, NoCrate)
      /\ UNCHANGED <<profile, root, default_entities, data_entities,
                     contextual_entities>>

\* convert_string_type_to_python_type(type_str, schema_name) on a type
\* expression; errors holds the string the message of the PropsError
\* contains, visited the type
ConvertTypeStr ==
  LET r == convert_type_str(call.args[1], call.args[2])
  IN  /\ call.op = "type_str"
      /\ call' = Result("convert_type_str", call.args, r.raised, <<r.msg>>,
                        r.type, NoDoc, NoCrate)
      /\ UNCHANGED <<profile, root, default_entities, data_entities,
                     contextual_entities>>

\* access_url(url) or get_name_from_ror(ror_id) on what the network answers
NetworkProbe ==
  /\ call.op = "requests.get"
  /\ \/ call' = Result("access_url", call.args, access_url(call.args[1]),
                        <<>>, <<>>, NoDoc, NoCrate)
     \/ call' = Result("get_name_from_ror", call.args,
                        get_name_from_ror(call.args[1]), <<>>, <<>>, NoDoc,
                        NoCrate)
  /\ UNCHANGED <<profile, root, default_entities, data_entities,
                 contextual_entities>>

NextUtils ==
  \/ NetworkProbe
  \/ CheckContentSize
  \/ SplitSize
  \/ ConvertType
  \/ ConvertTypeStr

SpecUtils == InitUtils /\ [][NextUtils]_vars

(***************************************************************************)
(* Properties of the graph and of its calls.                               *)
(***************************************************************************)
\* two positions of q hold entities with the same @id and the same @context
SharesIdCtx(q) ==
  \E i, j \in DOMAIN q :
    i # j /\ Id[q[i]] = Id[q[j]] /\ Context(q[i]) = Context(q[j])

\* two positions of q hold entities with the same @id and different @context
SharesIdOnly(q) ==
  \E i, j \in DOMAIN q :
    i # j /\ Id[q[i]] = Id[q[j]] /\ Context(q[i]) # Context(q[j])

\* C1: check_duplicate_entity raises CrateError exactly when two members of
\* all_entities have the same @id and the same @context; two entities with
\* the same @id and different @context pass.
C1_DuplicateCheck ==
  call.op = "check_duplicate_entity" =>
    /\ call.raised \in {"none", "CrateError"}
    /\ (call.raised = "CrateError") <=> SharesIdCtx(all_entities)

\* the check returned on a graph with two entities of one @id
C1_Witness ==
  /\ call.op = "check_duplicate_entity"
  /\ call.raised = "none"
  /\ SharesIdOnly(all_entities)

\* C2 as stated: after any sequence of add and remove, no two entities of
\* the graph share both @id and @context.
C2_NeverDuplicates == ~SharesIdCtx(all_entities)

\* C2 amended: add and remove may leave two entities that share both @id and
\* @context in the graph, but whenever as_jsonld returns a document no two
\* entities of the graph, and no two nodes of the document, share both.
C2_NoDuplicatesEncoded ==
  (call.op = "as_jsonld" /\ call.raised = "none") =>
    /\ ~SharesIdCtx(all_entities)
    /\ \A i, j \in DOMAIN call.doc.graph :
         i # j => <<call.doc.graph[i].id, call.doc.graph[i].context>>
                    # <<call.doc.graph[j].id, call.doc.graph[j].context>>

\* as_jsonld returned a document of a graph with two data entities
C2_Witness ==
  /\ call.op = "as_jsonld"
  /\ call.raised = "none"
  /\ Len(data_entities) >= 2
  /\ Len(call.doc.graph) = Len(all_entities)

\* C3: the root and the metadata descriptor stay in default_entities, and
\* no entity is in two of the three sequences.
C3_DefaultsKept ==
  /\ root \in Range(default_entities)
  /\ "meta" \in Range(default_entities)
  /\ Range(default_entities) \cap Range(data_entities) = {}
  /\ Range(default_entities) \cap Range(contextual_entities) = {}
  /\ Range(data_entities) \cap Range(contextual_entities) = {}

\* remove(root) was refused on a graph that holds data and contextual entities
C3_Witness ==
  /\ call.op = "remove"
  /\ call.args = <<"root">>
  /\ call.raised = "ValueError"
  /\ data_entities # <<>>
  /\ contextual_entities # <<>>

\* C4: add(e) appends e to exactly the sequence of e's variant and leaves
\* the other two alone; for an e of none of the three variants it raises
\* TypeError and appends nothing.
C4_AddAppends ==
  [][call'.op = "add" =>
       LET e == call'.args[1]
       IN  CASE Variant(e) = "Default" ->
                  /\ call'.raised = "none"
                  /\ default_entities' = Append(default_entities, e)
                  /\ UNCHANGED <<data_entities, contextual_entities>>
             [] Variant(e) = "Data" ->
                  /\ call'.raised = "none"
                  /\ data_entities' = Append(data_entities, e)
                  /\ UNCHANGED <<default_entities, contextual_entities>>
             [] Variant(e) = "Contextual" ->
                  /\ call'.raised = "none"
                  /\ contextual_entities' = Append(contextual_entities, e)
                  /\ UNCHANGED <<default_entities, data_entities>>
             [] OTHER ->
                  /\ call'.raised = "TypeError"
                  /\ UNCHANGED <<default_entities, data_entities,
                                 contextual_entities>>]_vars

\* add of an object of no variant was refused after adds to the data and the
\* contextual sequence
C4_Witness ==
  /\ call.op = "add"
  /\ call.args = <<"plain">>
  /\ call.raised = "TypeError"
  /\ data_entities # <<>>
  /\ contextual_entities # <<>>

\* q2 is q without its first member equal to e
WithoutFirst(q, q2, e) ==
  \E i \in DOMAIN q :
    /\ q[i] = e
    /\ \A j \in 1..(i - 1) : q[j] # e
    /\ q2 = [k \in 1..(Len(q) - 1) |-> IF k < i THEN q[k] ELSE q[k + 1]]

\* C5: remove(e) raises ValueError and changes nothing when e is not in the
\* graph or is a default entity; otherwise it removes e (its first
\* occurrence) from data_entities or contextual_entities only.
C5_Remove ==
  [][call'.op = "remove" =>
       LET e == call'.args[1]
       IN  IF e \notin Range(all_entities) \/ Variant(e) = "Default"
           THEN /\ call'.raised = "ValueError"
                /\ UNCHANGED <<default_entities, data_entities,
                               contextual_entities>>
           ELSE /\ call'.raised = "none"
                /\ default_entities' = default_entities
                /\ IF Variant(e) = "Data"
                   THEN /\ WithoutFirst(data_entities, data_entities', e)
                        /\ contextual_entities' = contextual_entities
                   ELSE /\ WithoutFirst(contextual_entities,
                                        contextual_entities', e)
                        /\ data_entities' = data_entities]_vars

\* remove took one of two occurrences of an entity out of data_entities
C5_Witness ==
  /\ call.op = "remove"
  /\ call.raised = "none"
  /\ call.args[1] \in Range(data_entities)

\* the entities of q whose check_props raises, in q's order
StructurallyInvalid(q) ==
  SelectSeq(q, LAMBDA e : check_props_of(e).kind # "ok")

\* C6: as_jsonld on a graph without duplicates never stops at the first
\* structural failure: with S the entities whose check_props fails, S not
\* empty gives exactly one CrateCheckPropsError holding one entity error per
\* member of S in all_entities order and no document; S empty gives the
\* document.
C6_EncodeAggregates ==
  (call.op = "as_jsonld" /\ ~SharesIdCtx(all_entities)) =>
    LET S == StructurallyInvalid(all_entities)
    IN  IF S # <<>>
        THEN /\ call.raised = "CrateCheckPropsError"
             /\ [i \in DOMAIN call.errors |-> call.errors[i].entity] = S
             /\ call.visited = all_entities
             /\ call.doc = NoDoc
        ELSE /\ call.raised = "none"
             /\ Len(call.doc.graph) = Len(all_entities)

\* C7: validate visits every entity of all_entities and either returns with
\* no governance violation reported or raises exactly one
\* CrateValidationError that holds the collected entity errors.
C7_ValidateAggregates ==
  call.op = "validate" =>
    /\ call.visited = all_entities
    /\ call.raised \in {"none", "CrateValidationError"}
    /\ (call.raised = "none") <=> (call.errors = <<>>)

\* what the check of entity e did under the crate-level operation op; no
\* object of Spec probes the network
OutcomeUnder(op, e) ==
  IF op = "check_props" THEN check_props_of(e) ELSE validate_of(e, "ok")

\* the positions of all_entities whose check raises an error that is not an
\* EntityError
FatalAt(op) ==
  {i \in DOMAIN all_entities :
     OutcomeUnder(op, all_entities[i]).kind \notin {"ok", "EntityError"}}

\* C8: when an entity's check_props or validate raises an error that is not
\* an EntityError, the crate-level operation raises that error at once: no
\* later entity is visited and no aggregate error is raised, whatever
\* EntityErrors were collected before.
C8_Propagates ==
  (call.op \in {"check_props", "validate"} /\ FatalAt(call.op) # {}) =>
    LET first == CHOOSE i \in FatalAt(call.op) :
                   \A j \in FatalAt(call.op) : i <= j
    IN  /\ call.raised = OutcomeUnder(call.op, all_entities[first]).kind
        /\ call.raised \notin {"CrateCheckPropsError", "CrateValidationError"}
        /\ call.visited = SubSeq(all_entities, 1, first)
        /\ call.errors = <<>>

\* check_props raised a PropsError after the EntityError of an earlier
\* entity had been collected
C8_Witness ==
  /\ call.op = "check_props"
  /\ call.raised = "PropsError"
  /\ \E i \in 1..(Len(call.visited) - 1) :
       check_props_of(call.visited[i]).kind = "EntityError"

\* a property value with every reference reduced to the @id it names
ById(v) ==
  CASE v.k = "ent" -> IdRef(Id[v.s])
    [] v.k = "ents" -> IdRefs([i \in DOMAIN v.l |-> Id[v.l[i]]])
    [] v.k = "dents" -> IdRefs(v.l)
    [] OTHER -> v

\* the entities of a decoded graph
DecodedEntities(cr) == cr.default \o cr.data \o cr.contextual

\* the decoded entity d is the entity h: same (@id, @type, @context), equal
\* property values
SameEntity(h, d) ==
  /\ <<d.id, d.type, d.context>> = <<Id[h], Type(h), Context(h)>>
  /\ \A p \in PropNames : ById(d.props[p]) = ById(PropsOf(h)[p])

ExampleGraph ==
  /\ Range(default_entities) = {"root", "meta"}
  /\ Range(data_entities) = {"cfile"}
  /\ Range(contextual_entities) = {"org", "person", "dmp", "cmeta"}

\* C10 as stated: the example graph encodes without error to a document
\* whose @graph has exactly 6 nodes.
C10_SixNodes ==
  (call.op = "as_jsonld" /\ ExampleGraph) =>
    (call.raised = "none" /\ Len(call.doc.graph) = 6)

\* C10 amended: the example graph encodes without error to a document whose
\* @graph has exactly 7 nodes: the six entities the claim names and the
\* metadata descriptor every ROCrate holds.
C10_SevenNodes ==
  (call.op = "as_jsonld" /\ ExampleGraph) =>
    /\ call.raised = "none"
    /\ Len(call.doc.graph) = 7
    /\ {call.doc.graph[i].id : i \in DOMAIN call.doc.graph}
         = {Id[h] : h \in ExamplePool \cup {"root", "meta"}}

\* the example graph was encoded
C10_Witness ==
  /\ call.op = "as_jsonld"
  /\ call.raised = "none"
  /\ ExampleGraph

\* the positions of the graph q that hold a root node, and a metadata node
RootNodesOf(q) == {i \in DOMAIN q : q[i].id = "./" /\ q[i].type = "Dataset"}
MetadataNodesOf(q) ==
  {i \in DOMAIN q :
     q[i].id = "ro-crate-metadata.json" /\ q[i].type = "CreativeWork"}

\* C11: from_jsonld requires exactly one root node and exactly one metadata
\* node: a document with none or with more than one of either is rejected
\* with an error, and on success the decoded default_entities is exactly
\* [root, metadata].
C11_ExactlyOneRootAndMetadata ==
  call.op = "from_jsonld" =>
    /\ (\/ Cardinality(RootNodesOf(call.doc.graph)) # 1
        \/ Cardinality(MetadataNodesOf(call.doc.graph)) # 1)
         => call.raised # "none"
    /\ call.raised = "none" =>
         /\ Len(call.decoded.default) = 2
         /\ call.decoded.default[1] = call.decoded.root
         /\ call.decoded.default[1].cls = <<"base", "RootDataEntity">>
         /\ call.decoded.default[2].cls = <<"base", "ROCrateMetadata">>

\* C12: in the node an entity's as_jsonld returns, a property whose value
\* is an entity object is {"@id": that entity's id} and nothing else, a
\* property whose value is a sequence of entity objects is the sequence of
\* such id-only objects in the same order, and every other property is
\* emitted unchanged.
C12_ReferenceCollapse ==
  (call.op = "entity.as_jsonld" /\ call.raised = "none") =>
    LET h == call.args[1]
        node == call.doc.graph[1]
    IN  /\ Len(call.doc.graph) = 1
        /\ node.id = Id[h]
        /\ \A p \in PropNames :
             LET v == PropsOf(h)[p]
                 out == node.props[p]
             IN  CASE v.k = "ent" ->
                        out = [k |-> "ref", s |-> Id[v.s], l |-> <<>>]
                   [] v.k = "ents" ->
                        /\ out.k = "refs"
                        /\ out.s = ""
                        /\ Len(out.l) = Len(v.l)
                        /\ \A i \in DOMAIN v.l : out.l[i] = Id[v.l[i]]
                   [] OTHER -> out = v

\* the plan metadata was serialized with a reference to the root, a
\* sequence of two plans and a string
C12_Witness ==
  /\ call.op = "entity.as_jsonld"
  /\ call.raised = "none"
  /\ call.args[1] = "cmeta"
  /\ call.doc.graph[1].props["about"] = IdRef("./")
  /\ call.doc.graph[1].props["hasPart"] = IdRefs(<<"#dmp:1", "#dmp:2">>)
  /\ call.doc.graph[1].props["name"] = Str("CAO-DMP")

UndeclaredOf(h) ==
  Keys(PropsOf(h)) \ DeclaredProps(load_entity_def_from_schema_file(h))
MissingRequiredOf(h) ==
  LET def == load_entity_def_from_schema_file(h)
  IN  {def[i].prop : i \in {j \in DOMAIN def : def[j].required}}
        \ Keys(PropsOf(h))

\* the properties the error of the last call names
NamedByCall ==
  UNION {Range(call.errors[i].msgs) : i \in DOMAIN call.errors}

\* C14: check_props of an entity with an undeclared property that is no
\* reserved "@" key fails with an error naming that property, for every such
\* property; without any, and all else valid, it succeeds; a reserved key is
\* never reported.
C14_UndeclaredNamed ==
  call.op = "entity.check_props" =>
    LET h == call.args[1]
    IN  /\ \A p \in UndeclaredOf(h) :
             call.raised # "none" /\ p \in NamedByCall
        /\ (UndeclaredOf(h) = {} /\ MissingRequiredOf(h) = {})
             => call.raised = "none"
        /\ \A k \in Range(ReservedKeys) : k \notin NamedByCall

\* C15: check_props of an entity that lacks a required property fails with
\* an error naming that property, for every such property; with a conforming
\* value for each, all else valid, it succeeds; a property that is not
\* required never makes it fail by being absent.
C15_MissingRequiredNamed ==
  call.op = "entity.check_props" =>
    LET h == call.args[1]
    IN  /\ \A p \in MissingRequiredOf(h) :
             call.raised # "none" /\ p \in NamedByCall
        /\ (UndeclaredOf(h) = {} /\ MissingRequiredOf(h) = {})
             => call.raised = "none"

\* C16: check_props of a File with one undeclared property and one missing
\* required property raises one EntityError that holds both violations.
C16_BothReported ==
  (/\ call.op = "entity.check_props"
   /\ Cls[call.args[1]][2] = "File"
   /\ Cardinality(UndeclaredOf(call.args[1])) = 1
   /\ Cardinality(MissingRequiredOf(call.args[1])) = 1) =>
    /\ call.raised = "EntityError"
    /\ Len(call.errors) = 1
    /\ UndeclaredOf(call.args[1]) \subseteq NamedByCall
    /\ MissingRequiredOf(call.args[1]) \subseteq NamedByCall

\* governance rules of entity h that its properties violate, by the
\* property each one cites
ViolatedRulesOf(h) ==
  LET keys == Keys(PropsOf(h))
      rights == PropsOf(h)["accessRights"].s
  IN  CASE Cls[h] = <<"cao", "DMP">> ->
             {p \in {"isAccessibleForFree", "license"} :
                rights = "open access" /\ p \notin keys}
        [] Cls[h] = <<"amed", "DMP">> ->
             {p \in {"availabilityStarts"} :
                /\ rights = "Unshared"
                /\ keys \cap {"availabilityStarts", "accessRightsInfo"} = {}}
             \cup
             {p \in {"informedConsentFormat"} :
                /\ PropsOf(h)["gotInformedConsent"].s = "yes"
                /\ p \notin keys}
        [] OTHER -> {}

\* C17: validate of an entity evaluates every governance rule of the entity
\* and reports every violated rule in the one error it raises; it never
\* raises at the first violation while a later rule is violated too.
C17_ReportsEveryViolation ==
  call.op = "entity.validate" =>
    \A p \in ViolatedRulesOf(call.args[1]) :
      call.raised # "none" /\ p \in NamedByCall

\* the sum of the sizes of the files the size rule of entity h looks at
SizeSumFor(h) ==
  LET files == SelectSeq(all_entities, LAMBDA e :
                 /\ Cls[e] = <<schema_name(h), "File">>
                 /\ Cls[h][2] = "GinMonitoring"
                      => PropsOf(e)["experimentPackageFlag"] = True)
  IN  SumSeq([i \in DOMAIN files |->
               SizeTable[PropsOf(files[i])["contentSize"].s].num])

\* entity h holds the properties its validate reads, and the crate holds the
\* plan metadata its validate looks up and only files with the properties
\* it reads
WellPlaced(h) ==
  CASE Cls[h][2] = "DMP" ->
         /\ "accessRights" \in Keys(PropsOf(h))
         /\ Cls[h] = <<"amed", "DMP">>
              => "gotInformedConsent" \in Keys(PropsOf(h))
         /\ \E e \in Range(all_entities) :
              Cls[e] = <<schema_name(h), "DMPMetadata">>
    [] Cls[h][2] = "GinMonitoring" ->
         /\ {"about", "datasetStructure"} \subseteq Keys(PropsOf(h))
         /\ \A e \in Range(all_entities) :
              Cls[e] = <<"ginfork", "File">>
                => "experimentPackageFlag" \in Keys(PropsOf(e))
    [] OTHER -> FALSE

\* C18: validate of an entity that declares a contentSize bound reports no
\* size violation when the files sum to exactly the bound, reports a
\* violation citing contentSize when they sum to one unit more, and reports
\* one when the bound is "over100GB" and the sum is under 100; in none of
\* these cases it fails with another kind of error.
C18_SizeGovernance ==
  (/\ call.op = "entity.validate"
   /\ WellPlaced(call.args[1])
   /\ "contentSize" \in Keys(PropsOf(call.args[1]))) =>
    LET h == call.args[1]
        size == PropsOf(h)["contentSize"].s
        bound == SizeTable[size].num
        sum == SizeSumFor(h)
    IN  /\ (size # "over100GB" /\ sum = bound) =>
             /\ "contentSize" \notin NamedByCall
             /\ call.raised \in {"none", "EntityError", "GovernanceError"}
        /\ (size # "over100GB" /\ sum = bound + 1) =>
             /\ "contentSize" \in NamedByCall
             /\ call.raised \in {"EntityError", "GovernanceError"}
        /\ (size = "over100GB" /\ sum < 100) =>
             /\ "contentSize" \in NamedByCall
             /\ call.raised \in {"EntityError", "GovernanceError"}

\* a size string as the spec defines it: a non-negative integer immediately
\* followed by KB, MB, GB, TB or PB, or the sentinel "over100GB"
SizeAsSpecified(value) ==
  LET n == Len(value)
  IN  \/ value = <<"o", "v", "e", "r", "1", "0", "0", "G", "B">>
      \/ /\ n >= 3
         /\ value[n] = "B"
         /\ value[n - 1] \in {"K", "M", "G", "T", "P"}
         /\ ~int_fails(SubSeq(value, 1, n - 2))

\* C19: check_content_size accepts a string exactly when it is a
\* non-negative integer immediately followed by KB, MB, GB, TB or PB, or the
\* sentinel "over100GB"; every string it accepts is split into an integer
\* and a two-character unit by the summation step without error.
C19_SizeFormat ==
  /\ call.op = "check_content_size" =>
       (call.raised = "none" <=> SizeAsSpecified(call.args[1]))
  /\ call.op = "split" => call.raised = "none"

\* C20: convert_string_type_to_python_type resolves a bare kind name to the
\* class of that name in the given schema module when the module defines
\* it, else to the class of that name in the base module; when neither
\* defines it, it raises a PropsError whose message contains the exact name;
\* with no schema name only the base module is consulted.
C20_KindResolution ==
  call.op = "convert" =>
    LET name == call.args[1]
        schema == call.args[2]
    IN  IF schema # "" /\ <<schema, name>> \in SchemaClasses
        THEN call.raised = "none" /\ call.visited = <<<<schema, name>>>>
        ELSE IF <<"base", name>> \in SchemaClasses
        THEN call.raised = "none" /\ call.visited = <<<<"base", name>>>>
        ELSE /\ call.raised = "PropsError"
             /\ call.errors = <<name>>
             /\ call.visited = <<NoClass>>

\* File was resolved in the cao module, which defines its own File, after
\* which the base module was not asked
C20_Witness ==
  /\ call.op = "convert"
  /\ call.args = <<"File", "cao">>
  /\ call.raised = "none"
  /\ call.visited = <<<<"cao", "File">>>>
  /\ <<"base", "File">> \in SchemaClasses

\* the term the spec gives a wrapper around a parsed expression
Wrapped(tag, prefix, type_str, schema) ==
  LET T == SubSeq(type_str, Len(prefix) + 1, Len(type_str) - 1)
      inner == convert_type_str(T, schema)
  IN  /\ Len(type_str) > Len(prefix)
      /\ SubSeq(type_str, 1, Len(prefix)) = prefix
      /\ T \in TypeExprs(MaxTypeDepth)
      /\ inner.raised = "none"
      => /\ call.raised = "none"
         /\ call.visited = <<tag, "[">> \o inner.type \o <<"]">>

\* C21: for every type expression T that parses, "Optional[T]" parses to the
\* optional of T's type and "List[T]" parses to the list of T's type.
C21_WrappersParse ==
  call.op = "convert_type_str" =>
    /\ Wrapped("List", <<"L", "i", "s", "t", "[">>, call.args[1], call.args[2])
    /\ Wrapped("Optional", <<"O", "p", "t", "i", "o", "n", "a", "l", "[">>,
               call.args[1], call.args[2])

\* C29: for all type expressions T1 and T2 that parse, "Union[T1, T2]"
\* parses to the union of their types, also when T1 or T2 is a bracketed
\* expression that contains ", ".
C29_UnionRecursive ==
  call.op = "convert_type_str" =>
    \A T1 \in TypeExprs(MaxTypeDepth) :
      LET type_str == call.args[1]
          head == <<"U", "n", "i", "o", "n", "[">> \o T1 \o <<",", " ">>
          T2 == SubSeq(type_str, Len(head) + 1, Len(type_str) - 1)
          r1 == convert_type_str(T1, call.args[2])
          r2 == convert_type_str(T2, call.args[2])
      IN  /\ Len(type_str) > Len(head)
          /\ SubSeq(type_str, 1, Len(head)) = head
          /\ type_str[Len(type_str)] = "]"
          /\ T2 \in TypeExprs(MaxTypeDepth)
          /\ r1.raised = "none"
          /\ r2.raised = "none"
          => /\ call.raised = "none"
             /\ call.visited = <<"Union", "[">> \o r1.type \o <<",">>
                                 \o r2.type \o <<"]">>

C23_FileValidate ==
  LET h == call.args[1]
      required == Id[h] \in UrlIds /\ props(h)["sdDatePublished"] = Absent
  IN  (call.op = "entity.validate"
         /\ Cls[h] \in {<<"amed", "File">>, <<"ginfork", "File">>}) =>
        call.raised = IF required THEN "EntityError" ELSE "none"

\* C24: access_url and get_name_from_ror raise GovernanceError only for a
\* not-found HTTP status; any other HTTP error status, a timeout and a
\* connection failure raise UnexpectedImplementationError; a response
\* without an error status raises nothing.
C24_ProbeErrors ==
  call.op \in {"access_url", "get_name_from_ror"} =>
    LET res == call.args[1]
    IN  call.raised =
          IF res.kind = "response" /\ res.status = 404 THEN "GovernanceError"
          ELSE IF res.kind = "response" /\ res.status = 200 THEN "none"
          ELSE "UnexpectedImplementationError"

\* C25: as_jsonld on a graph that holds two entities of the same @id and
\* @context raises CrateError before any structure check: no entity's
\* check_props has run and no entity error is reported, also when the graph
\* holds a structurally invalid entity.
C25_DuplicateCheckFirst ==
  (call.op = "as_jsonld" /\ SharesIdCtx(all_entities)) =>
    /\ call.raised = "CrateError"
    /\ call.visited = <<>>
    /\ call.errors = <<>>
    /\ call.doc = NoDoc

\* as_jsonld raised CrateError on a graph with a duplicate pair and an
\* entity whose check_props raises
C25_Witness ==
  /\ call.op = "as_jsonld"
  /\ call.raised = "CrateError"
  /\ SharesIdCtx(all_entities)
  /\ \E e \in Range(all_entities) : check_props_of(e).kind # "ok"

MetadataUnderTest(h) ==
  /\ call.op = "entity.validate"
  /\ Cls[h][2] = "DMPMetadata"
  /\ {"funder", "hasPart"} \subseteq Keys(PropsOf(h))

\* C27: DMPMetadata.validate reports a funder violation when the
\* organization its funder property references is not in the funder list of
\* the root entity, also when the root entity has no funder list, and
\* reports none when the organization is in that list.
C27_FunderRule ==
  LET h == call.args[1]
      listed == /\ "funder" \in Keys(PropsOf(root))
                /\ PropsOf(h)["funder"].s \in Range(PropsOf(root)["funder"].l)
  IN  MetadataUnderTest(h) =>
        ((call.raised # "none" /\ "funder" \in NamedByCall) <=> ~listed)

\* C30: cao DMPMetadata.validate reports a hasPart violation when the set of
\* DMP entities its hasPart lists differs from the set of DMP entities in
\* the crate, also when both have the same number of members, and reports
\* none when the two sets are equal.
C30_HasPartRule ==
  LET h == call.args[1]
      listed == Range(PropsOf(h)["hasPart"].l)
      held == {e \in Range(all_entities) : Cls[e] = <<"cao", "DMP">>}
  IN  (MetadataUnderTest(h) /\ Cls[h] = <<"cao", "DMPMetadata">>) =>
        ((call.raised # "none" /\ "hasPart" \in NamedByCall)
           <=> listed # held)

\* the parents under which the crate holds a Dataset for every directory
\* name the structure of h requires
CommonParents(h) ==
  LET names == IF PropsOf(h)["datasetStructure"].s = "with_code"
               THEN {"source", "input_data", "output_data"}
               ELSE {"source", "input_data"}
      held == {Id[e] : e \in {d \in Range(all_entities) :
                                Cls[d] = <<"base", "Dataset">>}}
  IN  {P \in {"exp1", "exp2"} :
         \A name \in names : \E id \in held :
           Path(id) = [parent |-> P, name |-> name]}

\* C28: GinMonitoring.validate reports a datasetStructure violation exactly
\* when no parent path holds a Dataset for every directory name the declared
\* structure requires; the names existing under different parents is a
\* violation.
C28_DatasetStructure ==
  LET h == call.args[1]
  IN  (/\ call.op = "entity.validate"
       /\ Cls[h] = <<"ginfork", "GinMonitoring">>
       /\ {"about", "contentSize", "datasetStructure"} \subseteq Keys(PropsOf(h))) =>
        ((call.raised # "none" /\ "datasetStructure" \in NamedByCall)
           <=> CommonParents(h) = {})

====
